---- MODULE Spec2Model ----
(***************************************************************************)
(* Event ingestion pipeline: Normalizer (services/normalizer.js),          *)
(* EventProcessor (services/eventProcessor.js), the RawEvent and           *)
(* NormalizedEvent collections (models/Event.js) and the MongoDB           *)
(* transaction discipline processEvent relies on.                          *)
(*                                                                         *)
(* JavaScript values are tagged records: [t |-> "str", v |-> chars],       *)
(* [t |-> "num", m |-> mantissa, e |-> fractional digits], [t |-> "null"], *)
(* [t |-> "undef"], [t |-> "bool", v |-> b], [t |-> "date", ...],          *)
(* [t |-> "obj", v |-> sequence of [k, v] pairs in insertion order],       *)
(* [t |-> "arr", v |-> sequence of values].  A string is the sequence of   *)
(* its characters, so that the converters work on the text as the code     *)
(* does.  A number m / 10^e is kept canonical (m has no trailing zero when *)
(* e > 0), so two numbers are equal iff JSON.stringify prints them alike.  *)
(***************************************************************************)
EXTENDS Integers, Sequences, FiniteSets, TLC

\* ------------------------------------------------------------------ values

Null == [t |-> "null"]
Undef == [t |-> "undef"]
Str(s) == [t |-> "str", v |-> s]
Bool(b) == [t |-> "bool", v |-> b]
Obj(fields) == [t |-> "obj", v |-> fields]
Arr(items) == [t |-> "arr", v |-> items]
F(k, val) == [k |-> k, v |-> val]

RECURSIVE Canon(_, _)
Canon(m, e) == IF e > 0 /\ m % 10 = 0 THEN Canon(m \div 10, e - 1) ELSE [t |-> "num", m |-> m, e |-> e]

Num(n) == Canon(n, 0)
Dec(m, e) == Canon(m, e)
NaN == [t |-> "nan"]

Digits == <<"0", "1", "2", "3", "4", "5", "6", "7", "8", "9">>
IsDigit(c) == \E i \in 1..Len(Digits) : Digits[i] = c
DigitVal(c) == (CHOOSE i \in 1..Len(Digits) : Digits[i] = c) - 1

RECURSIVE DigitsVal(_, _)
DigitsVal(s, acc) == IF s = <<>> THEN acc ELSE DigitsVal(Tail(s), acc * 10 + DigitVal(Head(s)))

RECURSIVE DigitPrefix(_)
DigitPrefix(s) == IF s = <<>> \/ ~IsDigit(Head(s)) THEN <<>> ELSE <<Head(s)>> \o DigitPrefix(Tail(s))

Drop(s, n) == SubSeq(s, n + 1, Len(s))

\* JavaScript truthiness (!value is its negation).
Truthy(x) ==
    CASE x.t = "undef" -> FALSE
      [] x.t = "null" -> FALSE
      [] x.t = "nan" -> FALSE
      [] x.t = "bool" -> x.v
      [] x.t = "num" -> x.m # 0
      [] x.t = "str" -> x.v # <<>>
      [] OTHER -> TRUE

\* typeof x === 'object' (null is excluded by the caller's !payload test).
TypeofObject(x) == x.t \in {"obj", "arr", "date", "null"}

\* payload.hasOwnProperty(k) and payload[k] for a plain object; an array or a
\* Date owns none of the mapped field names.
HasOwn(payload, k) == payload.t = "obj" /\ \E i \in 1..Len(payload.v) : payload.v[i].k = k
Get(payload, k) == payload.v[CHOOSE i \in 1..Len(payload.v) : payload.v[i].k = k].v

\* ------------------------------------------------------------------ Normalizer

\* Text of a literal, as the sequence of its characters.
TextTrue == <<"t", "r", "u", "e">>
TextObject == <<"[", "o", "b", "j", "e", "c", "t", " ", "O", "b", "j", "e", "c", "t", "]">>

\* Mutant: no character is removed.
StripNothing(s) == s

\* value.replace(/[^0-9.-]/g, '')
StripNonNumeric(s) == SelectSeq(s, LAMBDA c : IsDigit(c) \/ c = "." \/ c = "-")

\* parseFloat on a text of digits, '.' and '-': optional sign, digits, optional
\* fraction; the longest such prefix is the number, and no digit at all is NaN.
ParseFloat(s) ==
    LET neg == s # <<>> /\ Head(s) = "-"
        body == IF neg THEN Tail(s) ELSE s
        ip == DigitPrefix(body)
        rest == Drop(body, Len(ip))
        fp == IF rest # <<>> /\ Head(rest) = "." THEN DigitPrefix(Tail(rest)) ELSE <<>>
        mag == DigitsVal(ip \o fp, 0)
    IN  IF ip = <<>> /\ fp = <<>> THEN NaN
        ELSE Dec(IF neg THEN 0 - mag ELSE mag, Len(fp))

RECURSIVE NatText(_)
NatText(n) == IF n < 10 THEN <<Digits[n + 1]>> ELSE NatText(n \div 10) \o <<Digits[(n % 10) + 1]>>

RECURSIVE Pad(_, _)
Pad(s, n) == IF Len(s) >= n THEN s ELSE Pad(<<"0">> \o s, n)

\* String(x) of a number: sign, integer part, and the fraction when there is one.
NumText(x) ==
    LET mag == IF x.m < 0 THEN 0 - x.m ELSE x.m
        ds == Pad(NatText(mag), x.e + 1)
        ip == SubSeq(ds, 1, Len(ds) - x.e)
        fp == Drop(ds, Len(ds) - x.e)
    IN  (IF x.m < 0 THEN <<"-">> ELSE <<>>) \o ip \o (IF x.e > 0 THEN <<".">> \o fp ELSE <<>>)

\* String(value || ''): a falsy value is replaced by '' before it is stringified.
StringOrEmpty(value) ==
    IF ~Truthy(value) THEN Str(<<>>)
    ELSE CASE value.t = "str" -> value
           [] value.t = "num" -> Str(NumText(value))
           [] value.t = "bool" -> Str(TextTrue)
           [] OTHER -> Str(TextObject)

\* Mutant: the value is stored as it came.
ConvertNothing(value) == value

\* typeConverters.amount
ConvertAmount(value) ==
    CASE value.t = "num" -> value
      [] value.t = "nan" -> value
      [] value.t = "str" ->
            LET parsed == ParseFloat(StripNonNumeric(value.v))
            IN  IF parsed = NaN THEN Null ELSE parsed
      [] OTHER -> Null

\* typeConverters.metric
ConvertMetric(value) == IF value.t = "str" THEN value ELSE StringOrEmpty(value)

AllDigits(s) == \A i \in 1..Len(s) : IsDigit(s[i])

\* One of the three anchored patterns: year, month and day groups of a match, or
\* <<>> when the text does not match.  sep = "" is the 8-digit pattern.
MatchYMD(s, sep) ==
    IF sep = ""
    THEN IF Len(s) >= 8 /\ AllDigits(SubSeq(s, 1, 8))
         THEN <<SubSeq(s, 1, 4), SubSeq(s, 5, 6), SubSeq(s, 7, 8)>> ELSE <<>>
    ELSE IF /\ Len(s) >= 10
            /\ AllDigits(SubSeq(s, 1, 4)) /\ s[5] = sep
            /\ AllDigits(SubSeq(s, 6, 7)) /\ s[8] = sep
            /\ AllDigits(SubSeq(s, 9, 10))
         THEN <<SubSeq(s, 1, 4), SubSeq(s, 6, 7), SubSeq(s, 9, 10)>> ELSE <<>>

\* new Date(`${year}-${month}-${day}T00:00:00Z`): midnight UTC of that day, or an
\* invalid date (Null here) when the month is not 1..12 or the day not 1..31.
DateOf(g) ==
    LET y == DigitsVal(g[1], 0)
        mo == DigitsVal(g[2], 0)
        d == DigitsVal(g[3], 0)
    IN  IF mo \in 1..12 /\ d \in 1..31 THEN [t |-> "date", y |-> y, mo |-> mo, d |-> d] ELSE Null

\* new Date(value) on a text none of the patterns turned into a date.  The texts
\* of the model are either pattern dates or no dates at all, so this is invalid.
GenericDate(s) == Null

RECURSIVE FirstDate(_, _)
FirstDate(s, seps) ==
    IF seps = <<>> THEN GenericDate(s)
    ELSE LET g == MatchYMD(s, Head(seps))
             date == IF g = <<>> THEN Null ELSE DateOf(g)
         IN  IF date # Null THEN date ELSE FirstDate(s, Tail(seps))

\* typeConverters.timestamp
ConvertTimestamp(value) ==
    CASE value.t = "date" -> value
      [] value.t = "str" -> FirstDate(value.v, <<"/", "-", "">>)
      [] OTHER -> Null

\* this.fieldMappings.default, in Object.entries order.
DefaultMappings ==
    << <<"metric", "metric">>, <<"amount", "amount">>, <<"timestamp", "timestamp">>,
       <<"value", "metric">>, <<"price", "amount">>, <<"date", "timestamp">>,
       <<"time", "timestamp">> >>

\* this.fieldMappings as the constructor leaves it: a plain object with the one
\* key 'default'.  Keys are texts, like every string of the model.
DefaultKey == <<"d", "e", "f", "a", "u", "l", "t">>
ConstructedMappings == [k \in {DefaultKey} |-> DefaultMappings]

\* Names a plain object inherits from Object.prototype: this.fieldMappings[name]
\* is then a function or the prototype itself, which is truthy and has no
\* enumerable entry of its own.
PrototypeKeys ==
    { <<"t", "o", "S", "t", "r", "i", "n", "g">>,
      <<"_", "_", "p", "r", "o", "t", "o", "_", "_">> }

\* this.fieldMappings[source] || this.fieldMappings.default
MappingsFor(fieldMappings, source) ==
    LET key == IF source.t = "str" THEN source.v ELSE <<>>
    IN  IF key \in DOMAIN fieldMappings THEN fieldMappings[key]
        ELSE IF key \in PrototypeKeys THEN <<>>
        ELSE fieldMappings[DefaultKey]

\* {...this.fieldMappings.default, ...mappings}: the default entries in their
\* order, each with the new canonical field when `mappings` has its raw field,
\* then the raw fields only `mappings` has.
MergeMappings(base, mappings) ==
    LET over(e) == {j \in 1..Len(mappings) : mappings[j][1] = e[1]}
        kept == [i \in 1..Len(base) |->
                    IF over(base[i]) = {} THEN base[i]
                    ELSE mappings[CHOOSE j \in over(base[i]) : TRUE]]
        added == SelectSeq(mappings, LAMBDA e : \A i \in 1..Len(base) : base[i][1] # e[1])
    IN  kept \o added

\* The converter registered for the canonical field; a field without one
\* (client_id) takes the raw value as it is.
Convert(canonicalField, value) ==
    CASE canonicalField = "metric" -> ConvertMetric(value)
      [] canonicalField = "amount" -> ConvertAmount(value)
      [] canonicalField = "timestamp" -> ConvertTimestamp(value)
      [] OTHER -> value

\* The mapping loop: each table entry whose raw field the payload owns overwrites
\* its canonical field with the converted value.
RECURSIVE MapFields(_, _, _)
MapFields(table, payload, normalized) ==
    IF table = <<>> THEN normalized
    ELSE LET rawField == Head(table)[1]
             canonicalField == Head(table)[2]
             next == IF HasOwn(payload, rawField) /\ canonicalField \in DOMAIN normalized
                     THEN [normalized EXCEPT ![canonicalField] = Convert(canonicalField, Get(payload, rawField))]
                     ELSE normalized
         IN  MapFields(Tail(table), payload, next)

\* Mutant: the timestamp is hashed too.
NormalizedHashWithTimestamp(normalized) ==
    <<normalized.client_id, normalized.metric, normalized.amount, normalized.timestamp>>

\* sha256 over JSON.stringify({client_id, metric, amount}): the digest is modelled
\* by the text it is taken of (no collisions).
NormalizedHashOf(normalized) == <<normalized.client_id, normalized.metric, normalized.amount>>

InvalidEventError == "Invalid event: missing source or payload"
NormalizationError == "Normalization error: payload.hasOwnProperty is not a function"

\* Normalizer.normalize: [error |-> message] or the normalized record.
normalize(fieldMappings, rawEvent) ==
    LET source == rawEvent.source
        payload == rawEvent.payload
    IN  IF ~Truthy(source) \/ ~Truthy(payload) \/ ~TypeofObject(payload)
        THEN [error |-> InvalidEventError]
        ELSE IF HasOwn(payload, "hasOwnProperty")
        THEN [error |-> NormalizationError]
        ELSE LET fields == MapFields(MappingsFor(fieldMappings, source), payload,
                                     [client_id |-> source, metric |-> Null,
                                      amount |-> Null, timestamp |-> Null])
             IN  [client_id |-> fields.client_id, metric |-> fields.metric,
                  amount |-> fields.amount, timestamp |-> fields.timestamp,
                  normalizedHash |-> NormalizedHashOf(fields)]

IsError(normalized) == "error" \in DOMAIN normalized

\* ------------------------------------------------------------------ Content hasher

\* JSON.stringify of a value: a member whose value is undefined is left out, and
\* the members keep their insertion order.
Stringify(x) ==
    IF x.t = "obj" THEN Obj(SelectSeq(x.v, LAMBDA f : f.v.t # "undef")) ELSE x

\* EventProcessor._generateRawHash: sha256 over JSON.stringify({source, payload}),
\* modelled by the text it is taken of.
generateRawHash(rawEventData) == <<Stringify(rawEventData.source), Stringify(rawEventData.payload)>>

\* ------------------------------------------------------------------ bounds and inputs

\* Concurrent callers, calls they make in all, calls of the one-at-a-time
\* specification, storage faults injected in a run, and getStatistics calls.
Procs == {1, 2}
MaxCalls == 2
MaxSeqCalls == 3
MaxFaults == 1
MaxStatCalls == 1

\* The raw events the callers submit: two payloads of client A that differ as
\* texts and normalize alike, a payload that is no mapping, and one of client B.
Inputs ==
    << [source |-> Str(<<"A">>),
        payload |-> Obj(<<F("metric", Str(<<"x">>)), F("amount", Str(<<"1", "0">>))>>)],
       [source |-> Str(<<"A">>),
        payload |-> Obj(<<F("value", Str(<<"x">>)), F("price", Num(10))>>)],
       [source |-> Str(<<"A">>), payload |-> Str(<<"x">>)],
       [source |-> Str(<<"B">>),
        payload |-> Obj(<<F("metric", Str(<<"x">>)), F("amount", Num(10))>>)] >>

InputIds == 1..Len(Inputs)

\* The bodies posted to POST /api/events: the raw events above, the first of them
\* with its two fields in the other order, a body with an empty source and a body
\* without a payload, three bodies of unrecognized fields or values no
\* converter takes, and two more without a metric and without an amount that
\* converts, one of them of another source.
Requests ==
    Inputs \o
    << [source |-> Str(<<"A">>),
        payload |-> Obj(<<F("amount", Str(<<"1", "0">>)), F("metric", Str(<<"x">>))>>)],
       [source |-> Str(<<>>),
        payload |-> Obj(<<F("metric", Str(<<"x">>)), F("amount", Str(<<"1", "0">>))>>)],
       [source |-> Str(<<"A">>), payload |-> Undef],
       [source |-> Str(<<"A">>), payload |-> Obj(<<>>)],
       [source |-> Str(<<"A">>),
        payload |-> Obj(<<F("foo", Str(<<"x">>)), F("hasOwnProperty", Num(1))>>)],
       [source |-> Str(<<"A">>),
        payload |-> Obj(<<F("metric", Str(<<"x">>)), F("amount", Str(<<"a", "b", "c">>)),
                          F("timestamp", Str(<<"n", "o", "t", "-", "a", "-", "d", "a", "t", "e">>))>>)],
       [source |-> Str(<<"A">>), payload |-> Obj(<<F("price", Str(<<"a", "b", "c">>))>>)],
       [source |-> Str(<<"B">>), payload |-> Obj(<<>>)] >>

RequestIds == 1..Len(Requests)

\* ------------------------------------------------------------------ state

VARIABLES
    rawEvents,          \* committed RawEvent documents
    normalizedEvents,   \* committed NormalizedEvent documents
    proc,               \* per caller: position in processEvent and its locals
    txn,                \* per caller: the open transaction (snapshot plus own writes)
    calls,              \* processEvent calls started so far
    faults,             \* storage faults injected so far
    before,             \* one call at a time: the store when the call began, and the call before it
    stat,               \* the getStatistics call: counts still awaited, counts read, what it returned
    norm,               \* a Normalizer of its own: its fieldMappings and its last call
    agg                 \* the last request to the aggregates routes and its response

vars == <<rawEvents, normalizedEvents, proc, txn, calls, faults, before, stat, norm, agg>>

NoResult == [reason |-> "", message |-> "", eventId |-> 0, normalizedEventId |-> 0]

\* A caller's call: closed lists how the call has ended its transaction (commit,
\* abort), session tells whether the session it started has been ended.
IdleProc ==
    [pc |-> "idle", data |-> 0, simulateFailure |-> FALSE, id |-> 0,
     existingRaw |-> 0, rawEvent |-> 0, existingNormalized |-> 0,
     error |-> "", keyConflict |-> FALSE, faulted |-> FALSE, result |-> NoResult,
     closed |-> <<>>, session |-> "none"]

NoTxn == [open |-> FALSE, raw |-> {}, norm |-> {}, wrote |-> {}, inserted |-> {}, stale |-> {}]

NoStats == [totalProcessed |-> 0, totalFailed |-> 0, totalDuplicates |-> 0, totalNormalized |-> 0]

IdleStat ==
    [pc |-> "idle", calls |-> 0, pending |-> {}, stats |-> <<0, 0, 0, 0>>, result |-> NoStats,
     atCall |-> [rawEvents |-> {}, normalizedEvents |-> {}]]

NoCall == [op |-> "none"]

\* No request to the aggregates routes yet.
NoRequest == [route |-> "none"]

\* new Normalizer()
NewNormalizer == [fieldMappings |-> ConstructedMappings, call |-> NoCall]

rawEventData(p) == Requests[proc[p].data]

\* What the normalizer, with the mappings it is constructed with, and the content
\* hasher return for each input (both are pure, so each is computed once per input).
NormalizeTable == [i \in RequestIds |-> normalize(ConstructedMappings, Requests[i])]
RawHashTable == [i \in RequestIds |-> generateRawHash(Requests[i])]

\* const rawContentHash = this._generateRawHash(rawEventData)
rawContentHash(p) == RawHashTable[proc[p].data]

\* const normalized = normalizer.normalize(rawEventData)
normalizedOf(p) == NormalizeTable[proc[p].data]

Init ==
    /\ rawEvents = {}
    /\ normalizedEvents = {}
    /\ proc = [p \in Procs |-> IdleProc]
    /\ txn = [p \in Procs |-> NoTxn]
    /\ calls = 0
    /\ faults = 0
    /\ before = [rawEvents |-> {}, normalizedEvents |-> {}, call |-> IdleProc]
    /\ stat = IdleStat
    /\ norm = NewNormalizer
    /\ agg = NoRequest

\* ------------------------------------------------------------------ storage

\* A new RawEvent as the upsert inserts it ($setOnInsert).
NewRawEvent(id, data, hash) ==
    [id |-> id, source |-> data.source, payload |-> data.payload,
     contentHash |-> hash, status |-> "processing", errorMessage |-> ""]

\* new NormalizedEvent({...normalized, rawEventId})
NewNormalizedEvent(id, normalized, rawEventId) ==
    [id |-> id, client_id |-> normalized.client_id, metric |-> normalized.metric,
     amount |-> normalized.amount, timestamp |-> normalized.timestamp,
     normalizedHash |-> normalized.normalizedHash, rawEventId |-> rawEventId]

\* Mutant: the status update is lost.
UpdateStatusLost(docs, id, status) == docs

\* findByIdAndUpdate(id, {status}): errorMessage is not part of the update.
UpdateStatus(docs, id, status) ==
    {IF d.id = id THEN [d EXCEPT !.status = status] ELSE d : d \in docs}

\* Mutant: the update that marks a RawEvent failed is lost.
UpdateFailedLost(docs, id, message) == docs

\* findByIdAndUpdate(id, {status: 'failed', errorMessage}).
UpdateFailed(docs, id, message) ==
    {IF d.id = id THEN [d EXCEPT !.status = "failed", !.errorMessage = message] ELSE d : d \in docs}

OtherOpen(p) == {q \in Procs \ {p} : txn[q].open}

\* A write of transaction p to RawEvent id conflicts when another open
\* transaction has written the document, or when the document was changed in
\* the committed store after p's snapshot.
WriteConflict(p, id) ==
    \/ id \in txn[p].stale
    \/ \E q \in OtherOpen(p) : id \in txn[q].wrote

\* Mutant: normalizedHash carries a plain index, nothing is rejected.
UniqueViolationNone(p, hash) == FALSE

\* The unique index on normalizedHash rejects an insert when a committed
\* document, or one inserted by another open transaction, holds the key.
UniqueViolation(p, hash) ==
    \/ \E n \in normalizedEvents : n.normalizedHash = hash
    \/ \E q \in OtherOpen(p) : \E n \in txn[q].inserted : n.normalizedHash = hash

\* RawEvent.findOne({contentHash, status: {$in: [...]}}) on a set of documents.
FindRaw(docs, hash, statuses) == {d \in docs : d.contentHash = hash /\ d.status \in statuses}

AnyStatus == {"pending", "processing", "normalized", "failed", "duplicate"}

\* Mutant: the lookup queries a field no document has, and finds nothing.
FindNormalizedNone(docs, hash) == {}

\* NormalizedEvent.findOne({normalizedHash}) on a set of documents.
FindNormalized(docs, hash) == {n \in docs : n.normalizedHash = hash}

\* Mutant: a commit replaces the collection by the documents it wrote.
CommittedRawOnlyWritten(p) == {d \in txn[p].raw : d.id \in txn[p].wrote}

\* The committed store after transaction p commits: its written RawEvents
\* replace the committed versions, its inserted NormalizedEvents are added.
CommittedRaw(p) ==
    {d \in rawEvents : d.id \notin txn[p].wrote} \cup {d \in txn[p].raw : d.id \in txn[p].wrote}

\* Every other open transaction sees the documents `ids` as changed after its snapshot.
MarkStale(p, ids) ==
    [q \in Procs |-> IF q = p THEN NoTxn
                     ELSE IF txn[q].open THEN [txn[q] EXCEPT !.stale = @ \cup ids] ELSE txn[q]]

Commit(p) ==
    /\ rawEvents' = CommittedRaw(p)
    /\ normalizedEvents' = normalizedEvents \cup txn[p].inserted
    /\ txn' = MarkStale(p, {d.id : d \in rawEvents} \cap txn[p].wrote)

\* ------------------------------------------------------------------ processEvent

Set(p, fields) == [proc EXCEPT ![p] = fields]

Result(reason, message, eventId, normalizedEventId) ==
    [reason |-> reason, message |-> message, eventId |-> eventId,
     normalizedEventId |-> normalizedEventId]

\* The error is caught: the catch block runs next.
Throw(p, message, keyConflict) ==
    Set(p, [proc[p] EXCEPT !.pc = "catch", !.error = message, !.keyConflict = keyConflict])

\* A caller is free before its first call and once its last call has returned
\* (finally: endSession) or has thrown, or the route has answered without calling
\* processEvent; proc[p].result then holds what was returned.
Free(p) == proc[p].pc \in {"idle", "done", "thrown", "rejected"}

\* processEvent is called.
Enter(p, i, sf) ==
    /\ Free(p)
    /\ calls' = calls + 1
    /\ proc' = Set(p, [IdleProc EXCEPT !.pc = "findExistingRaw", !.data = i,
                                       !.simulateFailure = sf, !.id = calls + 1])
    /\ UNCHANGED <<rawEvents, normalizedEvents, txn, faults>>

\* A call by one of the concurrent callers.
Start(p, i, sf) ==
    /\ calls < MaxCalls
    /\ Enter(p, i, sf)
    /\ UNCHANGED <<before, stat, norm, agg>>

\* A call made when no other call is in flight, by the caller of the call before.
StartAlone(p, i, sf) ==
    /\ calls < MaxSeqCalls
    /\ Enter(p, i, sf)
    /\ before' = [rawEvents |-> rawEvents, normalizedEvents |-> normalizedEvents, call |-> proc[p]]
    /\ UNCHANGED <<stat, norm, agg>>

\* Mutant: the route checks nothing.
RouteRejectsNone(body) == FALSE

\* if (!source || !payload) in the route
RouteRejects(body) == ~Truthy(body.source) \/ ~Truthy(body.payload)

MissingFields == "Missing required fields: source and payload"

\* POST /api/events, requests made one at a time: a body without source or payload
\* is answered 400 at once, any other is handed to processEvent.
PostEvent(p, r, sf) ==
    /\ calls < MaxCalls
    /\ IF RouteRejects(Requests[r])
       THEN /\ Free(p)
            /\ calls' = calls + 1
            /\ proc' = Set(p, [IdleProc EXCEPT !.pc = "rejected", !.data = r, !.id = calls + 1,
                                               !.result = Result("", MissingFields, 0, 0)])
            /\ UNCHANGED <<rawEvents, normalizedEvents, txn, faults>>
       ELSE Enter(p, r, sf)
    /\ before' = [rawEvents |-> rawEvents, normalizedEvents |-> normalizedEvents, call |-> proc[p]]
    /\ UNCHANGED <<stat, norm, agg>>

\* Mutant: a RawEvent that was found is never taken for a duplicate.
IsRawDuplicateNever(existingRaw) == FALSE

\* existingRaw.status === 'normalized'
IsRawDuplicate(existingRaw) == existingRaw.status = "normalized"

\* startSession, startTransaction and steps 1-2: the first read opens the
\* snapshot; look for a RawEvent of this content with status normalized or
\* processing.
FindExistingRaw(p) ==
    /\ proc[p].pc = "findExistingRaw"
    /\ LET found == FindRaw(rawEvents, rawContentHash(p), {"normalized", "processing"})
       IN  \/ /\ found = {}
              /\ proc' = Set(p, [proc[p] EXCEPT !.pc = "upsert"])
           \/ \E d \in found :
                proc' = Set(p, [proc[p] EXCEPT !.existingRaw = d.id,
                                    !.pc = IF IsRawDuplicate(d) THEN "abortDuplicate" ELSE "upsert"])
    /\ txn' = [txn EXCEPT ![p] = [NoTxn EXCEPT !.open = TRUE, !.raw = rawEvents,
                                                !.norm = normalizedEvents]]
    /\ UNCHANGED <<rawEvents, normalizedEvents, calls, faults, before, stat, norm, agg>>

\* Raw-level duplicate: abortTransaction and return.
AbortDuplicate(p) ==
    /\ proc[p].pc = "abortDuplicate"
    /\ txn' = [txn EXCEPT ![p] = NoTxn]
    /\ proc' = Set(p, [proc[p] EXCEPT !.pc = "done", !.session = "ended",
                !.closed = Append(@, "abort"),
                !.result = Result("duplicate", "Event already processed", proc[p].existingRaw, 0)])
    /\ UNCHANGED <<rawEvents, normalizedEvents, calls, faults, before, stat, norm, agg>>

\* Where the call goes after the upsert: step 4 runs the normalizer (no await).
AfterUpsert(p) ==
    IF IsError(normalizedOf(p)) THEN "markFailed" ELSE "findExistingNormalized"

\* Step 3: findOneAndUpdate({contentHash}, {$setOnInsert}, {upsert}).  A matched
\* document is written too (the schema's timestamps set updatedAt).
UpsertRawEvent(p) ==
    /\ proc[p].pc = "upsert"
    /\ LET found == FindRaw(txn[p].raw, rawContentHash(p), AnyStatus)
       IN  \/ /\ found = {}
              /\ txn' = [txn EXCEPT ![p].raw = @ \cup {NewRawEvent(proc[p].id, rawEventData(p), rawContentHash(p))},
                                    ![p].wrote = @ \cup {proc[p].id}]
              /\ proc' = Set(p, [proc[p] EXCEPT !.rawEvent = proc[p].id, !.pc = AfterUpsert(p)])
           \/ \E d \in found :
                IF WriteConflict(p, d.id)
                THEN /\ proc' = Throw(p, "WriteConflict", FALSE)
                     /\ txn' = txn
                ELSE /\ txn' = [txn EXCEPT ![p].wrote = @ \cup {d.id}]
                     /\ proc' = Set(p, [proc[p] EXCEPT !.rawEvent = d.id, !.pc = AfterUpsert(p)])
    /\ UNCHANGED <<rawEvents, normalizedEvents, calls, faults, before, stat, norm, agg>>

\* Step 4, validation error: mark the RawEvent failed with the normalizer's message.
MarkFailed(p) ==
    /\ proc[p].pc = "markFailed"
    /\ txn' = [txn EXCEPT ![p].raw = UpdateFailed(@, proc[p].rawEvent, normalizedOf(p).error)]
    /\ proc' = Set(p, [proc[p] EXCEPT !.pc = "commitFailed"])
    /\ UNCHANGED <<rawEvents, normalizedEvents, calls, faults, before, stat, norm, agg>>

CommitFailed(p) ==
    /\ proc[p].pc = "commitFailed"
    /\ Commit(p)
    /\ proc' = Set(p, [proc[p] EXCEPT !.pc = "done", !.session = "ended",
                !.closed = Append(@, "commit"),
                !.result = Result("validation_error", normalizedOf(p).error,
                                  proc[p].rawEvent, 0)])
    /\ UNCHANGED <<calls, faults, before, stat, norm, agg>>

\* Mutant: the fault-injection flag is ignored.
SimulatedFailureIgnored(p) == FALSE

\* Mutant: the failure is thrown whatever the flag says.
SimulatedFailureAlways(p) == TRUE

\* if (simulateFailure)
SimulatedFailure(p) == proc[p].simulateFailure

\* Steps 5-6: look for a NormalizedEvent with the hash; without one, the
\* simulated failure is thrown here.
FindExistingNormalized(p) ==
    /\ proc[p].pc = "findExistingNormalized"
    /\ LET found == FindNormalized(txn[p].norm, normalizedOf(p).normalizedHash)
       IN  \/ /\ found = {}
              /\ proc' = IF SimulatedFailure(p)
                         THEN Throw(p, "Simulated database failure", FALSE)
                         ELSE Set(p, [proc[p] EXCEPT !.pc = "saveNormalized"])
           \/ \E n \in found :
                proc' = Set(p, [proc[p] EXCEPT !.existingNormalized = n.id, !.pc = "markDuplicate"])
    /\ UNCHANGED <<rawEvents, normalizedEvents, txn, calls, faults, before, stat, norm, agg>>

\* Normalized-level duplicate: the RawEvent gets status duplicate.
MarkDuplicate(p) ==
    /\ proc[p].pc = "markDuplicate"
    /\ txn' = [txn EXCEPT ![p].raw = UpdateStatus(@, proc[p].rawEvent, "duplicate")]
    /\ proc' = Set(p, [proc[p] EXCEPT !.pc = "commitDuplicate"])
    /\ UNCHANGED <<rawEvents, normalizedEvents, calls, faults, before, stat, norm, agg>>

CommitDuplicate(p) ==
    /\ proc[p].pc = "commitDuplicate"
    /\ Commit(p)
    /\ proc' = Set(p, [proc[p] EXCEPT !.pc = "done", !.session = "ended",
                !.closed = Append(@, "commit"),
                !.result = Result("duplicate", "Normalized event already exists",
                                  proc[p].rawEvent, proc[p].existingNormalized)])
    /\ UNCHANGED <<calls, faults, before, stat, norm, agg>>

\* Step 7: normalizedEvent.save({session}); the unique index may reject it.
SaveNormalized(p) ==
    /\ proc[p].pc = "saveNormalized"
    /\ LET doc == NewNormalizedEvent(proc[p].id, normalizedOf(p), proc[p].rawEvent)
       IN  IF UniqueViolation(p, normalizedOf(p).normalizedHash)
           THEN /\ proc' = Throw(p, "E11000 duplicate key error", TRUE)
                /\ txn' = txn
           ELSE /\ txn' = [txn EXCEPT ![p].norm = @ \cup {doc}, ![p].inserted = @ \cup {doc}]
                /\ proc' = Set(p, [proc[p] EXCEPT !.pc = "markNormalized"])
    /\ UNCHANGED <<rawEvents, normalizedEvents, calls, faults, before, stat, norm, agg>>

\* Step 8: the RawEvent gets status normalized.
MarkNormalized(p) ==
    /\ proc[p].pc = "markNormalized"
    /\ txn' = [txn EXCEPT ![p].raw = UpdateStatus(@, proc[p].rawEvent, "normalized")]
    /\ proc' = Set(p, [proc[p] EXCEPT !.pc = "commitNormalized"])
    /\ UNCHANGED <<rawEvents, normalizedEvents, calls, faults, before, stat, norm, agg>>

\* Step 9: commit, return success.
CommitNormalized(p) ==
    /\ proc[p].pc = "commitNormalized"
    /\ Commit(p)
    /\ proc' = Set(p, [proc[p] EXCEPT !.pc = "done", !.session = "ended",
                !.closed = Append(@, "commit"),
                !.result = Result("success", "Event processed successfully",
                                  proc[p].rawEvent, proc[p].id)])
    /\ UNCHANGED <<calls, faults, before, stat, norm, agg>>

ProcessingError(p) ==
    Set(p, [proc[p] EXCEPT !.pc = "done", !.session = "ended",
                           !.result = Result("processing_error", proc[p].error, 0, 0)])

\* catch: abortTransaction discards the transaction's writes.
Catch(p) ==
    /\ proc[p].pc = "catch"
    /\ txn' = [txn EXCEPT ![p] = NoTxn]
    /\ proc' = Set(p, [proc[p] EXCEPT !.pc = "recoverFind", !.closed = Append(@, "abort")])
    /\ UNCHANGED <<rawEvents, normalizedEvents, calls, faults, before, stat, norm, agg>>

\* Recovery, outside any transaction: RawEvent.findOne({contentHash}) on the
\* committed store.
RecoverFind(p) ==
    /\ proc[p].pc = "recoverFind"
    /\ LET found == FindRaw(rawEvents, rawContentHash(p), AnyStatus)
       IN  \/ /\ found = {}
              /\ proc' = ProcessingError(p)
           \/ \E d \in found :
                proc' = Set(p, [proc[p] EXCEPT !.rawEvent = d.id, !.pc = "recoverUpdate"])
    /\ UNCHANGED <<rawEvents, normalizedEvents, txn, calls, faults, before, stat, norm, agg>>

\* The status written by the recovery update.
RecoveryStatus(docs, id, message) == UpdateFailed(docs, id, message)

\* Recovery write: findByIdAndUpdate(id, {status: 'failed', errorMessage}).  A
\* write outside a transaction waits for a transaction that holds the document.
RecoverUpdate(p) ==
    /\ proc[p].pc = "recoverUpdate"
    /\ \A q \in OtherOpen(p) : proc[p].rawEvent \notin txn[q].wrote
    /\ rawEvents' = RecoveryStatus(rawEvents, proc[p].rawEvent, proc[p].error)
    /\ txn' = MarkStale(p, {proc[p].rawEvent})
    /\ proc' = ProcessingError(p)
    /\ UNCHANGED <<normalizedEvents, calls, faults, before, stat, norm, agg>>

InTry == {"findExistingRaw", "abortDuplicate", "upsert", "markFailed", "commitFailed", "findExistingNormalized",
          "markDuplicate", "commitDuplicate", "saveNormalized", "markNormalized",
          "commitNormalized"}

\* A storage operation inside the try block fails: its error is caught.
Fault(p) ==
    /\ proc[p].pc \in InTry
    /\ faults < MaxFaults
    /\ faults' = faults + 1
    /\ proc' = Set(p, [proc[p] EXCEPT !.pc = "catch", !.error = "storage failure", !.faulted = TRUE])
    /\ UNCHANGED <<rawEvents, normalizedEvents, txn, calls, before, stat, norm, agg>>

\* A storage operation of the recovery fails: the inner catch logs it.
RecoveryFault(p) ==
    /\ proc[p].pc \in {"recoverFind", "recoverUpdate"}
    /\ faults < MaxFaults
    /\ faults' = faults + 1
    /\ proc' = Set(p, [ProcessingError(p)[p] EXCEPT !.faulted = TRUE])
    /\ UNCHANGED <<rawEvents, normalizedEvents, txn, calls, before, stat, norm, agg>>

\* A storage operation outside the try block fails, startSession before it or
\* abortTransaction in the catch block: the error leaves processEvent as an
\* exception (finally ends the session, and an open transaction is discarded).
UncaughtFault(p) ==
    /\ proc[p].pc \in {"findExistingRaw", "catch"}
    /\ faults < MaxFaults
    /\ faults' = faults + 1
    /\ txn' = [txn EXCEPT ![p] = NoTxn]
    /\ proc' = Set(p, [proc[p] EXCEPT !.pc = "thrown", !.error = "storage failure",
                                      !.faulted = TRUE,
                                      !.session = IF proc[p].pc = "catch" THEN "ended" ELSE "none"])
    /\ UNCHANGED <<rawEvents, normalizedEvents, calls, before, stat, norm, agg>>

\* ------------------------------------------------------------------ Normalizer calls

\* The sources and payloads handed to normalize: mappings with recognized
\* fields under either name, with and without timestamps, with values no
\* converter takes, with unrecognized fields only, and payloads that are no
\* mapping.
NormSources == <<Str(<<"A">>), Str(<<"B">>), Str(<<>>), Undef, Str(<<"t", "o", "S", "t", "r", "i", "n", "g">>)>>

NormPayloads ==
    << Obj(<<F("metric", Str(<<"x">>)), F("amount", Str(<<"1", "0">>))>>),
       Obj(<<F("value", Str(<<"x">>)), F("price", Num(10))>>),
       Obj(<<F("metric", Str(<<"x">>)), F("amount", Str(<<"1", "0">>)), F("timestamp", Str(<<"2", "0", "2", "4", "/", "0", "1", "/", "0", "1">>))>>),
       Obj(<<F("metric", Str(<<"x">>)), F("amount", Num(10)), F("date", Str(<<"2", "0", "2", "4", "-", "0", "1", "-", "0", "2">>))>>),
       Obj(<<F("metric", Str(<<"y">>)), F("amount", Str(<<"1", "0">>))>>),
       Obj(<<F("amount", Str(<<"1", "0">>)), F("price", Str(<<"a", "b", "c">>))>>),
       Obj(<<F("price", Num(5)), F("amount", Str(<<"1", "0">>))>>),
       Obj(<<F("time", Str(<<"2", "0", "2", "4", "-", "0", "1", "-", "0", "3">>)), F("timestamp", Str(<<"2", "0", "2", "4", "0", "1", "0", "1">>))>>),
       Obj(<<F("timestamp", Str(<<"n", "o", "t", "-", "a", "-", "d", "a", "t", "e">>)), F("amount", Str(<<"a", "b", "c">>)), F("metric", Num(0))>>),
       Obj(<<F("amount", Bool(TRUE)), F("timestamp", Num(5))>>),
       Obj(<<F("cost", Num(7)), F("price", Str(<<"1", ",", "2", "0", "0", ".", "5", "0">>))>>),
       Obj(<<>>),
       Obj(<<F("foo", Str(<<"x">>))>>),
       Obj(<<F("foo", Str(<<"x">>)), F("hasOwnProperty", Num(1))>>),
       Arr(<<Num(1)>>),
       Str(<<"x">>),
       Num(5),
       Null,
       Undef >>

NormEvents ==
    {[source |-> NormSources[i], payload |-> NormPayloads[j]] :
        i \in 1..Len(NormSources), j \in 1..Len(NormPayloads)}

\* The tables clients register: a new raw field for amount, an existing raw
\* field moved to another canonical field, and a canonical field that is none.
ClientMappings ==
    << << <<"cost", "amount">> >>,
       << <<"price", "metric">>, <<"foo", "bar">> >> >>

ClientIds == {<<"A">>, <<"t", "o", "S", "t", "r", "i", "n", "g">>}

\* The values handed to the amount converter: every text of up to MaxAmountLen
\* characters of AmountChars, the texts of the examples, numbers and values
\* that are neither.
MaxAmountLen == 2
AmountChars == {"1", "0", ",", ".", "-"}
AmountTexts == UNION {[1..n -> AmountChars] : n \in 0..MaxAmountLen}

AmountValues ==
    {Str(t) : t \in AmountTexts} \cup
    {Str(<<"1", ",", "2", "0", "0", ".", "5", "0">>), Str(<<"1", "2", "0", "0">>), Str(<<"$", "1", ",", "2", "0", "0">>), Str(<<"a", "b", "c">>),
     Num(0), Num(1200), Dec(12005, 1), Num(0 - 5), Bool(TRUE), Null, Undef, Obj(<<>>)}

\* The values handed to the metric and the timestamp converters.
MetricValues ==
    {Str(<<"x">>), Str(<<>>), Num(0), Num(5), Dec(15, 1), Num(0 - 5), Bool(FALSE), Bool(TRUE), Null, Undef,
     Obj(<<>>)}

TimestampValues ==
    {Str(<<"2", "0", "2", "4", "/", "0", "1", "/", "0", "1">>), Str(<<"2", "0", "2", "4", "-", "0", "1", "-", "3", "1">>), Str(<<"2", "0", "2", "4", "0", "1", "0", "1">>), Str(<<"n", "o", "t", "-", "a", "-", "d", "a", "t", "e">>), Str(<<"2", "0", "2", "4", "-", "1", "3", "-", "0", "1">>),
     [t |-> "date", y |-> 2024, mo |-> 1, d |-> 1], Num(5), Null, Undef}

ConverterValues(field) ==
    CASE field = "amount" -> AmountValues
      [] field = "metric" -> MetricValues
      [] OTHER -> TimestampValues

\* normalizer.normalize(rawEvent)
NormalizeCall(rawEvent) ==
    /\ norm' = [norm EXCEPT !.call = [op |-> "normalize", rawEvent |-> rawEvent,
                                      result |-> normalize(norm.fieldMappings, rawEvent)]]
    /\ UNCHANGED <<rawEvents, normalizedEvents, proc, txn, calls, faults, before, stat, agg>>

\* normalizer.typeConverters[field](value)
ConverterCall(field, value) ==
    /\ norm' = [norm EXCEPT !.call = [op |-> "convert", field |-> field, value |-> value,
                                      result |-> Convert(field, value)]]
    /\ UNCHANGED <<rawEvents, normalizedEvents, proc, txn, calls, faults, before, stat, agg>>

\* normalizer.updateFieldMappings(clientId, mappings)
updateFieldMappings(clientId, mappings) ==
    /\ norm' = [norm EXCEPT
                  !.fieldMappings =
                      [k \in DOMAIN norm.fieldMappings \cup {clientId} |->
                          IF k = clientId
                          THEN MergeMappings(norm.fieldMappings[DefaultKey], mappings)
                          ELSE norm.fieldMappings[k]],
                  !.call = [op |-> "updateFieldMappings", clientId |-> clientId]]
    /\ UNCHANGED <<rawEvents, normalizedEvents, proc, txn, calls, faults, before, stat, agg>>

\* ------------------------------------------------------------------ getStatistics

\* Mutant: the status filter of the count is dropped.
CountAll(docs, status) == Cardinality(docs)

\* RawEvent.countDocuments({status})
CountDocuments(docs, status) == Cardinality({d \in docs : d.status = status})

\* The four counts of the Promise.all array, in its order (the fourth is
\* NormalizedEvent.countDocuments()), each read from the committed store.
StatQuery(k) ==
    CASE k = 1 -> CountDocuments(rawEvents, "normalized")
      [] k = 2 -> CountDocuments(rawEvents, "failed")
      [] k = 3 -> CountDocuments(rawEvents, "duplicate")
      [] OTHER -> Cardinality(normalizedEvents)

\* The object getStatistics returns from the array of counts.
StatResult(stats) ==
    [totalProcessed |-> stats[1], totalFailed |-> stats[2],
     totalDuplicates |-> stats[3], totalNormalized |-> stats[4]]

\* getStatistics is called: the four counts are issued together.
GetStatistics ==
    /\ stat.pc \in {"idle", "returned"}
    /\ stat.calls < MaxStatCalls
    /\ stat' = [IdleStat EXCEPT !.pc = "counting", !.calls = stat.calls + 1,
                                !.pending = DOMAIN IdleStat.stats,
                                !.atCall = [rawEvents |-> rawEvents,
                                            normalizedEvents |-> normalizedEvents]]
    /\ UNCHANGED <<rawEvents, normalizedEvents, proc, txn, calls, faults, before, norm, agg>>

\* One of the counts is answered, in any order; with the last one Promise.all
\* resolves and getStatistics returns.
CountAnswered(k) ==
    /\ stat.pc = "counting"
    /\ k \in stat.pending
    /\ LET stats == [stat.stats EXCEPT ![k] = StatQuery(k)]
       IN  stat' = [stat EXCEPT !.stats = stats, !.pending = @ \ {k},
                                !.pc = IF stat.pending = {k} THEN "returned" ELSE "counting",
                                !.result = IF stat.pending = {k} THEN StatResult(stats) ELSE @]
    /\ UNCHANGED <<rawEvents, normalizedEvents, proc, txn, calls, faults, before, norm, agg>>

\* ------------------------------------------------------------------ specifications

Step(p) ==
    \/ FindExistingRaw(p)
    \/ AbortDuplicate(p)
    \/ UpsertRawEvent(p)
    \/ MarkFailed(p)
    \/ CommitFailed(p)
    \/ FindExistingNormalized(p)
    \/ MarkDuplicate(p)
    \/ CommitDuplicate(p)
    \/ SaveNormalized(p)
    \/ MarkNormalized(p)
    \/ CommitNormalized(p)
    \/ Catch(p)
    \/ RecoverFind(p)
    \/ RecoverUpdate(p)
    \/ Fault(p)
    \/ RecoveryFault(p)
    \/ UncaughtFault(p)

\* Concurrent callers: any interleaving of the storage steps of their calls.
Next ==
    \E p \in Procs :
        \/ \E i \in InputIds, sf \in BOOLEAN : Start(p, i, sf)
        \/ Step(p)

Spec == Init /\ [][Next]_vars

\* One caller: each call begins after the call before it has returned.
SeqNext ==
    \/ \E i \in InputIds, sf \in BOOLEAN : StartAlone(1, i, sf)
    \/ Step(1)

SeqSpec == Init /\ [][SeqNext]_vars

\* The same, where a call that has started goes on: each awaited storage
\* operation completes or fails.
FairSeqSpec == SeqSpec /\ WF_vars(Step(1))

\* One client of the route: each request is posted after the answer to the one before.
ApiNext ==
    \/ \E r \in RequestIds, sf \in BOOLEAN : PostEvent(1, r, sf)
    \/ Step(1)

ApiSpec == Init /\ [][ApiNext]_vars

\* A getStatistics call beside the processEvent calls of one caller.
StatNext ==
    \/ \E i \in InputIds, sf \in BOOLEAN : Start(1, i, sf)
    \/ Step(1)
    \/ GetStatistics
    \/ \E k \in DOMAIN IdleStat.stats : CountAnswered(k)

StatSpec == Init /\ [][StatNext]_vars

\* A Normalizer on its own: calls of normalize, of a converter, and of
\* updateFieldMappings, in any order.
NormNext ==
    \/ \E rawEvent \in NormEvents : NormalizeCall(rawEvent)
    \/ \E field \in {"metric", "amount", "timestamp"} :
          \E value \in ConverterValues(field) : ConverterCall(field, value)
    \/ \E clientId \in ClientIds, i \in 1..Len(ClientMappings) :
          updateFieldMappings(clientId, ClientMappings[i])

NormSpec == Init /\ [][NormNext]_vars

\* ------------------------------------------------------------------ Aggregator

\* Amounts carry at most this many decimals.
MaxDecimals == 3

RECURSIVE Pow10(_)
Pow10(n) == IF n = 0 THEN 1 ELSE 10 * Pow10(n - 1)

\* A number in units of 10^-MaxDecimals, and the number of so many units.
Scaled(number) == number.m * Pow10(MaxDecimals - number.e)
Unscaled(n) == Dec(n, MaxDecimals)

\* { $ifNull: ['$amount', 0] }
IfNull(value, default) == IF value \in {Null, Undef} THEN default ELSE value

\* Mutant: an absent amount counts as 1.
AmountOrOne(doc) == Scaled(IfNull(doc.amount, Num(1)))

\* The amount of a document as the accumulators take it.
AmountOrZero(doc) == Scaled(IfNull(doc.amount, Num(0)))

\* $sum, $min and $max of the amounts of a group.
RECURSIVE SumAmount(_)
SumAmount(docs) ==
    IF docs = {} THEN 0
    ELSE LET doc == CHOOSE doc \in docs : TRUE
         IN  AmountOrZero(doc) + SumAmount(docs \ {doc})

MinAmount(docs) == CHOOSE n \in {AmountOrZero(doc) : doc \in docs} : \A doc \in docs : n <= AmountOrZero(doc)
MaxAmount(docs) == CHOOSE n \in {AmountOrZero(doc) : doc \in docs} : \A doc \in docs : n >= AmountOrZero(doc)

\* { $round: [x, 2] } where x is n / d units: the nearest hundredth, a tie going
\* to the even one.
Round2(n, d) ==
    LET unit == d * Pow10(MaxDecimals - 2)
        q == n \div unit
        r == n % unit
    IN  Dec(IF 2 * r > unit \/ (2 * r = unit /\ q % 2 = 1) THEN q + 1 ELSE q, 2)

\* Dates in time order.
DateKey(date) == (date.y * 100 + date.mo) * 100 + date.d

\* Mutant: the upper bound is exclusive.
Before(date, bound) == DateKey(date) < DateKey(bound)

\* $gte and $lte on dates.
Gte(date, bound) == DateKey(date) >= DateKey(bound)
Lte(date, bound) == DateKey(date) <= DateKey(bound)

\* new Date(text) on a query parameter: the ISO form YYYY-MM-DD is midnight UTC
\* of that day.  The texts of the model are of that form; any other is invalid.
NewDate(text) ==
    LET g == MatchYMD(text, "-")
    IN  IF Len(text) = 10 /\ g # <<>> THEN DateOf(g) ELSE Null

\* const query = {}; ... : the filter the two routes build.
BuildQuery(client_id, startDate, endDate) ==
    [client_id |-> IF Truthy(client_id) THEN client_id ELSE Undef,
     timestamp |-> Truthy(startDate) \/ Truthy(endDate),
     gte |-> IF Truthy(startDate) THEN NewDate(startDate.v) ELSE Undef,
     lte |-> IF Truthy(endDate) THEN NewDate(endDate.v) ELSE Undef]

\* { $match: query }: a comparison with a date matches no null timestamp.
Matches(doc, query) ==
    /\ query.client_id # Undef => doc.client_id = query.client_id
    /\ query.timestamp =>
          /\ doc.timestamp # Null
          /\ query.gte # Undef => Gte(doc.timestamp, query.gte)
          /\ query.lte # Undef => Lte(doc.timestamp, query.lte)

Match(docs, query) == {doc \in docs : Matches(doc, query)}

\* _id: groupBy === 'client' ? '$client_id' : null
ByClient == Str(<<"c", "l", "i", "e", "n", "t">>)
GroupId(doc, groupBy) == IF groupBy = ByClient THEN doc.client_id ELSE Null
GroupIds(docs, groupBy) == {GroupId(doc, groupBy) : doc \in docs}

\* Mutant: every group holds all the matching documents.
GroupAll(docs, groupBy, id) == docs

\* The documents $group puts under one _id.
GroupDocs(docs, groupBy, id) == {doc \in docs : GroupId(doc, groupBy) = id}

\* $min and $max of the pushed timestamps: null ones are ignored.
Timestamps(docs) == {doc.timestamp : doc \in docs} \ {Null}
MinDate(docs) ==
    IF Timestamps(docs) = {} THEN Null
    ELSE CHOOSE date \in Timestamps(docs) :
            \A other \in Timestamps(docs) : DateKey(date) <= DateKey(other)
MaxDate(docs) ==
    IF Timestamps(docs) = {} THEN Null
    ELSE CHOOSE date \in Timestamps(docs) :
            \A other \in Timestamps(docs) : DateKey(date) >= DateKey(other)

\* One document of GET /api/aggregates after $group and $project.
Grouped(id, docs) ==
    [_id |-> id,
     totalAmount |-> Round2(SumAmount(docs), 1),
     averageAmount |-> Round2(SumAmount(docs), Cardinality(docs)),
     count |-> Cardinality(docs),
     minAmount |-> Unscaled(MinAmount(docs)),
     maxAmount |-> Unscaled(MaxAmount(docs)),
     uniqueMetrics |-> {doc.metric : doc \in docs},
     dateRange |-> [min |-> MinDate(docs), max |-> MaxDate(docs)]]

\* results.map(result => ({ group: result._id || 'all', ... }))
All == Str(<<"a", "l", "l">>)
Format(result) ==
    [group |-> IF Truthy(result._id) THEN result._id ELSE All,
     totals |-> [amount |-> result.totalAmount, count |-> result.count],
     averages |-> [amount |-> result.averageAmount],
     ranges |-> [amount |-> [min |-> result.minAmount, max |-> result.maxAmount],
                 date |-> result.dateRange],
     metrics |-> {m \in result.uniqueMetrics : m # Null /\ m # Str(<<>>)}]

\* One document of GET /api/aggregates/by-client after $group and $project.
ClientGrouped(id, docs) ==
    [client_id |-> id,
     totalAmount |-> Round2(SumAmount(docs), 1),
     averageAmount |-> Round2(SumAmount(docs), Cardinality(docs)),
     count |-> Cardinality(docs),
     metrics |-> {doc.metric : doc \in docs}]

\* The orders in which the groups of a pipeline can come out.
Orderings(ids) ==
    {order \in [1..Cardinality(ids) -> ids] :
        \A i, j \in 1..Cardinality(ids) : i # j => order[i] # order[j]}

\* Mutant: the smallest total first.
Ascending(results) ==
    \A i \in 1..(Len(results) - 1) :
        Scaled(results[i].totalAmount) <= Scaled(results[i + 1].totalAmount)

\* { $sort: { totalAmount: -1 } }: the largest total first, equal totals in any order.
Descending(results) ==
    \A i \in 1..(Len(results) - 1) :
        Scaled(results[i].totalAmount) >= Scaled(results[i + 1].totalAmount)

\* value || fallback
Or(value, fallback) == IF Truthy(value) THEN value ELSE fallback

\* GET /api/aggregates: the groups come out of $group in any order; a failed
\* read is answered with status 500.
AggregatesResponses(docs, client_id, startDate, endDate, groupBy) ==
    LET matched == Match(docs, BuildQuery(client_id, startDate, endDate))
    IN  {[route |-> "aggregates", client_id |-> client_id, startDate |-> startDate,
          endDate |-> endDate, groupBy |-> groupBy, status |-> 200, success |-> TRUE,
          data |-> [i \in DOMAIN order |->
                       Format(Grouped(order[i], GroupDocs(matched, groupBy, order[i])))],
          filters |-> [client_id |-> Or(client_id, All), startDate |-> Or(startDate, Null),
                       endDate |-> Or(endDate, Null)]] :
            order \in Orderings(GroupIds(matched, groupBy))}
        \cup {[route |-> "aggregates", client_id |-> client_id, startDate |-> startDate,
                endDate |-> endDate, groupBy |-> groupBy, status |-> 500, success |-> FALSE]}

GetAggregates(client_id, startDate, endDate, groupBy) ==
    /\ agg' \in AggregatesResponses(normalizedEvents, client_id, startDate, endDate, groupBy)
    /\ UNCHANGED <<rawEvents, normalizedEvents, proc, txn, calls, faults, before, stat, norm>>

\* GET /api/aggregates/by-client
ByClientResponses(docs, startDate, endDate) ==
    LET matched == Match(docs, BuildQuery(Undef, startDate, endDate))
        results(order) == [i \in DOMAIN order |->
                              ClientGrouped(order[i], GroupDocs(matched, ByClient, order[i]))]
    IN  {[route |-> "by-client", startDate |-> startDate, endDate |-> endDate,
          status |-> 200, success |-> TRUE, data |-> results(order)] :
            order \in {o \in Orderings(GroupIds(matched, ByClient)) : Descending(results(o))}}
        \cup {[route |-> "by-client", startDate |-> startDate, endDate |-> endDate,
                status |-> 500, success |-> FALSE]}

GetByClient(startDate, endDate) ==
    /\ agg' \in ByClientResponses(normalizedEvents, startDate, endDate)
    /\ UNCHANGED <<rawEvents, normalizedEvents, proc, txn, calls, faults, before, stat, norm>>

\* The raw events whose NormalizedEvents the store can hold when the aggregates
\* routes are called: amounts 10 and 30 of client A, 5 and none of client B, and
\* one of three decimals of client C.
AggEvents ==
    << [source |-> Str(<<"A">>),
        payload |-> Obj(<<F("metric", Str(<<"x">>)), F("amount", Num(10)),
                          F("timestamp", Str(<<"2", "0", "2", "4", "-", "0", "1", "-", "0", "1">>))>>)],
       [source |-> Str(<<"A">>),
        payload |-> Obj(<<F("metric", Str(<<"y">>)), F("amount", Str(<<"3", "0">>)),
                          F("date", Str(<<"2", "0", "2", "4", "/", "0", "1", "/", "3", "1">>))>>)],
       [source |-> Str(<<"B">>),
        payload |-> Obj(<<F("metric", Str(<<"x">>)), F("amount", Num(5)),
                          F("timestamp", Str(<<"2", "0", "2", "4", "-", "0", "2", "-", "0", "1">>))>>)],
       [source |-> Str(<<"B">>), payload |-> Obj(<<F("value", Str(<<>>))>>)],
       [source |-> Str(<<"C">>),
        payload |-> Obj(<<F("metric", Str(<<"x">>)), F("amount", Str(<<"1", ".", "2", "3", "4">>)),
                          F("timestamp", Str(<<"2", "0", "2", "4", "0", "1", "1", "5">>))>>)] >>

AggEventIds == 1..Len(AggEvents)

\* What processEvent has stored when it has accepted the events ids.
AggNormalized == [i \in AggEventIds |-> normalize(ConstructedMappings, AggEvents[i])]
StoredRaw(ids) ==
    {[NewRawEvent(i, AggEvents[i], generateRawHash(AggEvents[i])) EXCEPT !.status = "normalized"] :
        i \in ids}
StoredNormalized(ids) == {NewNormalizedEvent(i, AggNormalized[i], i) : i \in ids}

\* The parameters of the query string.
QueryClients == {Undef, Str(<<"A">>)}
QueryDates ==
    {Undef,
     Str(<<"2", "0", "2", "4", "-", "0", "1", "-", "0", "1">>),
     Str(<<"2", "0", "2", "4", "-", "0", "1", "-", "3", "1">>)}
QueryGroups == {Undef, ByClient, Str(<<"n", "o", "n", "e">>)}

\* The aggregates routes over a store that holds any of the events above.
AggInit ==
    /\ \E ids \in SUBSET AggEventIds :
          /\ rawEvents = StoredRaw(ids)
          /\ normalizedEvents = StoredNormalized(ids)
    /\ proc = [p \in Procs |-> IdleProc]
    /\ txn = [p \in Procs |-> NoTxn]
    /\ calls = 0
    /\ faults = 0
    /\ before = [rawEvents |-> {}, normalizedEvents |-> {}, call |-> IdleProc]
    /\ stat = IdleStat
    /\ norm = NewNormalizer
    /\ agg = NoRequest

AggNext ==
    \/ \E client_id \in QueryClients, startDate \in QueryDates, endDate \in QueryDates,
          groupBy \in QueryGroups : GetAggregates(client_id, startDate, endDate, groupBy)
    \/ \E startDate \in QueryDates, endDate \in QueryDates : GetByClient(startDate, endDate)

AggSpec == AggInit /\ [][AggNext]_vars

\* ------------------------------------------------------------------ claims

Done(p) == proc[p].pc = "done"
Reason(p) == proc[p].result.reason
Valid(i) == ~IsError(NormalizeTable[i])
RawHash(i) == RawHashTable[i]
NormHash(i) == NormalizeTable[i].normalizedHash

\* The committed NormalizedEvents of the content of input i.
NormalizedFor(i) ==
    IF Valid(i) THEN {n \in normalizedEvents : n.normalizedHash = NormHash(i)} ELSE {}

\* One call at a time: the call before this one, and what it left.
Prev == before.call
AfterCall == Prev.pc = "done"
NoFault == ~proc[1].faulted /\ ~Prev.faulted

\* When the call began, the store held no RawEvent and no NormalizedEvent of its content.
NotYetSeen(i) ==
    /\ \A d \in before.rawEvents : d.contentHash # RawHash(i)
    /\ \A n \in before.normalizedEvents : n.normalizedHash # NormHash(i)

\* C1: in every reachable state, whatever calls ran, failed or raced, no two
\* committed NormalizedEvents have the same normalizedHash, so the content of an
\* input never has a second NormalizedEvent however often it is submitted.
C1_UniqueNormalizedHash ==
    /\ \A a, b \in normalizedEvents : a.normalizedHash = b.normalizedHash => a = b
    /\ \A i \in InputIds : Cardinality(NormalizedFor(i)) <= 1

\* C1 witness: a call whose insert the unique index rejected has returned, and the
\* NormalizedEvent of its content is committed.
C1_Witness ==
    \E p \in Procs : Done(p) /\ proc[p].keyConflict /\ Cardinality(NormalizedFor(proc[p].data)) = 1

\* The second of two calls, one after the other, with the same content and
\* simulateFailure = false, both without a storage fault, has returned.
SecondOfTwo ==
    /\ Done(1) /\ AfterCall /\ NoFault
    /\ Prev.data = proc[1].data
    /\ ~Prev.simulateFailure /\ ~proc[1].simulateFailure

\* C2 as stated: for any raw input, the second of two such calls returns
\* duplicate and exactly one NormalizedEvent of the content exists.
C2_AnyInput ==
    SecondOfTwo => Reason(1) = "duplicate" /\ Cardinality(NormalizedFor(proc[1].data)) = 1

\* C2 amended: the same for every raw input the normalizer accepts.
C2_ValidInput ==
    SecondOfTwo /\ Valid(proc[1].data) =>
        Reason(1) = "duplicate" /\ Cardinality(NormalizedFor(proc[1].data)) = 1

\* C2 witness: the second call returned after a first one that was itself a
\* normalized-level duplicate of an earlier payload.
C2_Witness ==
    /\ SecondOfTwo /\ Valid(proc[1].data)
    /\ Prev.result.reason = "duplicate" /\ Prev.existingNormalized # 0
    /\ Reason(1) = "duplicate"

\* The second of two different payloads with the same normalized content has
\* returned: the first was processed (success or duplicate), neither call met a
\* storage fault, and the second payload was not itself normalized before.
SemanticDuplicate ==
    /\ Done(1) /\ AfterCall /\ NoFault
    /\ Valid(Prev.data) /\ Valid(proc[1].data)
    /\ RawHash(Prev.data) # RawHash(proc[1].data)
    /\ NormHash(Prev.data) = NormHash(proc[1].data)
    /\ Prev.result.reason \in {"success", "duplicate"}
    /\ \A d \in before.rawEvents :
          d.contentHash = RawHash(proc[1].data) => d.status # "normalized"

\* C3: the second call creates no NormalizedEvent and leaves the existing one
\* unchanged (exactly one of that content exists), commits its own RawEvent with
\* status duplicate, and returns duplicate naming that RawEvent and the
\* NormalizedEvent that existed.
C3_SemanticDedup ==
    SemanticDuplicate =>
        /\ normalizedEvents = before.normalizedEvents
        /\ Cardinality(NormalizedFor(proc[1].data)) = 1
        /\ Reason(1) = "duplicate"
        /\ \E d \in rawEvents :
              /\ d.id = proc[1].result.eventId
              /\ d.contentHash = RawHash(proc[1].data)
              /\ d.status = "duplicate"
        /\ \E n \in NormalizedFor(proc[1].data) : n.id = proc[1].result.normalizedEventId

\* C3 witness: such a second call has returned, and its RawEvent is one it created.
C3_Witness == SemanticDuplicate /\ proc[1].result.eventId = proc[1].id

\* A call with simulateFailure = true on a valid input not yet seen has returned,
\* without a storage fault.
SimulatedOnFresh ==
    /\ Done(1) /\ proc[1].simulateFailure /\ ~proc[1].faulted
    /\ Valid(proc[1].data) /\ NotYetSeen(proc[1].data)

\* C4: such a call returns processing_error and the committed NormalizedEvents
\* are those from before the call.
C4_FailureCommitsNothing ==
    SimulatedOnFresh =>
        Reason(1) = "processing_error" /\ normalizedEvents = before.normalizedEvents

\* C4 witness: such a call has returned while another NormalizedEvent is committed.
C4_Witness == SimulatedOnFresh /\ normalizedEvents # {}

\* C5 as stated: after such a call the store holds a RawEvent of that content
\* with the original payload, status failed and the failure's message.
C5_RawEventPersisted ==
    SimulatedOnFresh =>
        \E d \in rawEvents :
            /\ d.contentHash = RawHash(proc[1].data)
            /\ d.payload = Inputs[proc[1].data].payload
            /\ d.status = "failed"
            /\ d.errorMessage = proc[1].result.message

\* A retry with simulateFailure = false has returned, right after a call with
\* the same content that failed with simulateFailure = true.
RetryAfterFailure ==
    /\ Done(1) /\ AfterCall /\ NoFault
    /\ Prev.data = proc[1].data
    /\ Prev.simulateFailure /\ Prev.result.reason = "processing_error"
    /\ ~proc[1].simulateFailure

\* A call without fault or simulated failure on a valid input has returned, and
\* a RawEvent of its content had status failed when it began.
RetryOfFailedRaw ==
    /\ Done(1) /\ ~proc[1].faulted /\ ~proc[1].simulateFailure
    /\ Valid(proc[1].data)
    /\ \E d \in before.rawEvents :
          d.contentHash = RawHash(proc[1].data) /\ d.status = "failed"

Committed(p) == {n \in normalizedEvents : n.id = proc[p].id}

\* C7: of two calls with the same valid content, in any interleaving, at most
\* one returns success and at most one NormalizedEvent of the content is
\* committed; a call that returned success committed that NormalizedEvent.
C7_AtMostOneSuccess ==
    /\ \A p, q \in Procs :
          Done(p) /\ Done(q) /\ p # q /\ proc[p].data = proc[q].data =>
              ~(Reason(p) = "success" /\ Reason(q) = "success")
    /\ \A p \in Procs :
          Done(p) /\ Valid(proc[p].data) =>
              /\ Cardinality(NormalizedFor(proc[p].data)) <= 1
              /\ Reason(p) = "success" => Committed(p) = NormalizedFor(proc[p].data)

\* C7 witness: both calls found no NormalizedEvent and went on to insert; one
\* returned success and the other was rejected by the index.
C7_Witness ==
    \E p, q \in Procs :
        /\ Done(p) /\ Done(q) /\ proc[p].data = proc[q].data
        /\ Reason(p) = "success" /\ proc[q].keyConflict

\* C8 as stated: a call whose NormalizedEvent insert the unique index rejected
\* returns duplicate, not processing_error, and the store then holds its RawEvent
\* with status duplicate.
C8_LostRaceIsDuplicate ==
    \A p \in Procs :
        Done(p) /\ proc[p].keyConflict =>
            /\ Reason(p) = "duplicate"
            /\ \E d \in rawEvents :
                  d.contentHash = RawHash(proc[p].data) /\ d.status = "duplicate"

\* C9 as stated: a RawEvent whose committed status is normalized keeps that
\* status in every later step.
C9_NormalizedIsFinal ==
    [][\A d \in rawEvents : d.status = "normalized" =>
          \E e \in rawEvents' : e.id = d.id /\ e.status = "normalized"]_vars

\* C10 as stated: the committed store holds at most one RawEvent per contentHash.
C10_OneRawPerHash ==
    \A a, b \in rawEvents : a.contentHash = b.contentHash => a = b

\* A call on an input the normalizer rejects has returned, without a storage fault.
RejectedByNormalizer ==
    Done(1) /\ ~proc[1].faulted /\ ~Valid(proc[1].data)

\* C11: when the normalizer returns an error for the input, the call returns
\* validation_error with the normalizer's message, the store holds the call's
\* RawEvent of that content with status failed and that message, and the
\* committed NormalizedEvents are those from before the call.
C11_ValidationError ==
    RejectedByNormalizer =>
        /\ Reason(1) = "validation_error"
        /\ proc[1].result.message = NormalizeTable[proc[1].data].error
        /\ \E d \in rawEvents :
              /\ d.id = proc[1].result.eventId
              /\ d.contentHash = RawHash(proc[1].data)
              /\ d.status = "failed"
              /\ d.errorMessage = NormalizeTable[proc[1].data].error
        /\ normalizedEvents = before.normalizedEvents

\* C11 witness: such a call has returned, whatever its simulateFailure flag, and
\* its RawEvent is the one an earlier rejected call created.
C11_Witness ==
    /\ RejectedByNormalizer /\ proc[1].simulateFailure
    /\ proc[1].result.eventId # proc[1].id

\* The route has answered a request, without a storage fault.
Answered == proc[1].pc \in {"done", "rejected"} /\ ~proc[1].faulted

\* The store is as it was when the request was posted.
NoStorageWrite == rawEvents = before.rawEvents /\ normalizedEvents = before.normalizedEvents

\* typeof payload === 'object' and not null: the payload is a structured mapping.
IsMapping(payload) == Truthy(payload) /\ TypeofObject(payload)

Returns(p) == proc[p].pc # "done" /\ proc'[p].pc = "done"
NewlyCommitted == normalizedEvents' \ normalizedEvents
NewlyNormalized ==
    {d \in rawEvents' : d.status = "normalized" /\
                         ~\E e \in rawEvents : e.id = d.id /\ e.status = "normalized"}

NormalizedBefore == {d \in before.rawEvents :
                        d.contentHash = RawHash(proc[1].data) /\ d.status = "normalized"}

\* A call has returned, without a storage fault, and a RawEvent of its content
\* had status normalized when it began.
RawLevelDuplicate == Done(1) /\ ~proc[1].faulted /\ NormalizedBefore # {}

\* C14: such a call returns duplicate naming that RawEvent (and no
\* NormalizedEvent), and every RawEvent and NormalizedEvent of the store is as
\* it was before the call.
C14_RawDuplicateChangesNothing ==
    RawLevelDuplicate =>
        /\ Reason(1) = "duplicate"
        /\ proc[1].result.eventId \in {d.id : d \in NormalizedBefore}
        /\ proc[1].result.normalizedEventId = 0
        /\ rawEvents = before.rawEvents
        /\ normalizedEvents = before.normalizedEvents

\* C14 witness: such a call has returned, made with simulateFailure = true, while
\* the store also holds a RawEvent of another content.
C14_Witness ==
    /\ RawLevelDuplicate /\ proc[1].simulateFailure
    /\ \E d \in rawEvents : d.contentHash # RawHash(proc[1].data)

\* C15: in every step, every committed RawEvent is still in the store after the
\* step with the same source, payload and contentHash; a step changes at most
\* its status and errorMessage.
C15_RawEventContentKept ==
    [][\A d \in rawEvents :
          \E e \in rawEvents' :
              /\ e.id = d.id
              /\ e.source = d.source /\ e.payload = d.payload
              /\ e.contentHash = d.contentHash]_vars

\* C15 witness: a call has returned after it reused the RawEvent another call
\* created, and that RawEvent holds the content of the call that created it.
C15_Witness ==
    \E p \in Procs : \E d \in rawEvents :
        /\ Done(p) /\ proc[p].rawEvent = d.id /\ d.id # proc[p].id
        /\ Reason(p) # "duplicate"
        /\ d.payload = rawEventData(p).payload /\ d.source = rawEventData(p).source

Outcomes == {"success", "duplicate", "validation_error", "processing_error"}

\* C16 as stated: whichever storage operation fails, a call that has ended has
\* returned one of the four outcomes, and none has ended with an exception.
C16_AlwaysAnOutcome ==
    \A p \in Procs :
        proc[p].pc \in {"done", "thrown"} => Done(p) /\ Reason(p) \in Outcomes

\* C17 as stated: in every committed state a RawEvent carries an errorMessage
\* only if its status is failed.
C17_ErrorMessageOnlyWhenFailed ==
    \A d \in rawEvents : d.errorMessage # "" => d.status = "failed"

\* C18 as stated: when a retry follows a call of the same content that failed in
\* its transaction and was rolled back, the store held a RawEvent of the content
\* with status failed when the retry began, and the retry returns duplicate
\* naming that RawEvent, without processing the event again.
C18_RetryIsDuplicate ==
    RetryAfterFailure =>
        /\ \E d \in before.rawEvents :
              /\ d.contentHash = RawHash(proc[1].data) /\ d.status = "failed"
              /\ proc[1].result.eventId = d.id
        /\ Reason(1) = "duplicate"
        /\ normalizedEvents = before.normalizedEvents

\* C19: a step of getStatistics changes no RawEvent and no NormalizedEvent, and
\* when it returns with the committed store as it was at the call, the four
\* fields are the numbers of RawEvents with status normalized, failed and
\* duplicate and the number of NormalizedEvents of that store.
C19_StatisticsAreCounts ==
    [][stat' # stat =>
          /\ rawEvents' = rawEvents /\ normalizedEvents' = normalizedEvents
          /\ (/\ stat'.pc = "returned"
              /\ rawEvents = stat.atCall.rawEvents
              /\ normalizedEvents = stat.atCall.normalizedEvents) =>
                 /\ stat'.result.totalProcessed =
                        Cardinality({d \in rawEvents : d.status = "normalized"})
                 /\ stat'.result.totalFailed =
                        Cardinality({d \in rawEvents : d.status = "failed"})
                 /\ stat'.result.totalDuplicates =
                        Cardinality({d \in rawEvents : d.status = "duplicate"})
                 /\ stat'.result.totalNormalized = Cardinality(normalizedEvents)
      ]_vars

\* C19 witness: getStatistics has returned one failed RawEvent, one normalized
\* RawEvent and one NormalizedEvent, from a store that is as it was at the call.
C19_Witness ==
    /\ stat.pc = "returned"
    /\ rawEvents = stat.atCall.rawEvents /\ normalizedEvents = stat.atCall.normalizedEvents
    /\ stat.result = [totalProcessed |-> 1, totalFailed |-> 1, totalDuplicates |-> 0,
                      totalNormalized |-> 1]

\* Two payloads are mappings that hold the same key/value pairs, in any order.
SamePairs(a, b) ==
    /\ a.t = "obj" /\ b.t = "obj"
    /\ {a.v[i] : i \in 1..Len(a.v)} = {b.v[i] : i \in 1..Len(b.v)}

\* A request has been answered after one with the same source and the same
\* key/value pairs that was processed to success, both without a storage fault.
SamePairsAgain ==
    /\ Done(1) /\ AfterCall /\ NoFault
    /\ rawEventData(1).source = Requests[Prev.data].source
    /\ SamePairs(rawEventData(1).payload, Requests[Prev.data].payload)
    /\ Prev.result.reason = "success"

\* C20 as stated: the two inputs get the same contentHash whatever the order of
\* their fields, so the second is answered as a raw-level duplicate of the
\* first: duplicate naming the first one's RawEvent, with no RawEvent written.
C20_HashIgnoresFieldOrder ==
    SamePairsAgain =>
        /\ RawHash(proc[1].data) = RawHash(Prev.data)
        /\ Reason(1) = "duplicate"
        /\ proc[1].result.eventId = Prev.result.eventId
        /\ rawEvents = before.rawEvents

\* The last call of the Normalizer was normalize and returned a normalized record.
NormalizedRecord == norm.call.op = "normalize" /\ ~IsError(norm.call.result)

\* What the Normalizer, as it is configured now, returns for another raw event.
Other(rawEvent) == normalize(norm.fieldMappings, rawEvent)

C22_ErrorIffInvalid ==
    norm.call.op = "normalize" =>
        (IsError(norm.call.result)
            <=> \/ ~Truthy(norm.call.rawEvent.source)
                \/ norm.call.rawEvent.payload.t # "obj")

\* The table the configuration holds for a source: the client's own when one
\* is registered, else the default one.
TableOf(source) ==
    IF source.t = "str" /\ source.v \in DOMAIN norm.fieldMappings
    THEN norm.fieldMappings[source.v]
    ELSE norm.fieldMappings[DefaultKey]

\* The entries of a table whose raw field the payload holds and that map to
\* the canonical field, by their position in the table.
Present(table, payload, canonicalField) ==
    {i \in 1..Len(table) : table[i][2] = canonicalField /\ HasOwn(payload, table[i][1])}

Last(positions) == CHOOSE i \in positions : \A j \in positions : j <= i

\* The value the last such entry gives, converted; none when there is no entry.
LastWins(table, payload, canonicalField) ==
    IF Present(table, payload, canonicalField) = {} THEN Null
    ELSE Convert(canonicalField,
                 Get(payload, table[Last(Present(table, payload, canonicalField))][1]))

\* C23 as stated: each canonical field of a normalized record is the converted
\* value of the last raw field, in the order of the table, that the payload
\* holds and that maps to it, the table being the client's own when one is
\* registered and else the default one.
C23_LastMappingWins ==
    NormalizedRecord =>
        \A canonicalField \in {"metric", "amount", "timestamp"} :
            norm.call.result[canonicalField] =
                LastWins(TableOf(norm.call.rawEvent.source), norm.call.rawEvent.payload,
                         canonicalField)

\* The raw field names a mapping table recognizes.
RawFields(table) == {table[i][1] : i \in 1..Len(table)}

\* A payload that is a mapping and holds no field the default table recognizes.
OnlyUnrecognized(payload) ==
    payload.t = "obj" /\ \A i \in 1..Len(payload.v) : payload.v[i].k \notin RawFields(DefaultMappings)

\* C24 as stated: a request with a source and such a payload, an empty mapping
\* included, normalizes to a record with metric, amount and timestamp absent
\* and client_id equal to the source, and processEvent does not answer it with
\* validation_error.
C24_UnrecognizedFieldsAccepted ==
    Done(1) /\ ~proc[1].faulted /\ Truthy(rawEventData(1).source)
            /\ OnlyUnrecognized(rawEventData(1).payload) =>
        /\ ~IsError(normalizedOf(1))
        /\ Reason(1) # "validation_error"
        /\ normalize(ConstructedMappings, rawEventData(1)).client_id = rawEventData(1).source
        /\ \A c \in {"metric", "amount", "timestamp"} :
              normalize(ConstructedMappings, rawEventData(1))[c] = Null

\* A value no converter of the field takes: for amount a text without a digit
\* or a value that is neither text nor number, for timestamp a text without a
\* digit or a value that is neither text nor date.
NoDigit(value) == value.t = "str" /\ \A i \in 1..Len(value.v) : ~IsDigit(value.v[i])

CannotConvert(canonicalField, value) ==
    IF canonicalField = "amount" THEN NoDigit(value) \/ value.t \notin {"str", "num"}
    ELSE NoDigit(value) \/ value.t \notin {"str", "date"}

\* The canonical fields whose value, under the default table, comes from a raw
\* field of the payload that holds such a value.
Unconverted(rawEvent) ==
    {c \in {"amount", "timestamp"} :
        /\ Present(DefaultMappings, rawEvent.payload, c) # {}
        /\ CannotConvert(c, Get(rawEvent.payload,
               DefaultMappings[Last(Present(DefaultMappings, rawEvent.payload, c))][1]))}

\* A raw event with a source and a mapping for payload that has such a field.
HasUnconvertible(rawEvent) ==
    /\ Truthy(rawEvent.source) /\ rawEvent.payload.t = "obj"
    /\ ~HasOwn(rawEvent.payload, "hasOwnProperty")
    /\ Unconverted(rawEvent) # {}

\* normalize returns a record for it, in which each such field is absent.
AbsentNotError(rawEvent) ==
    /\ ~IsError(normalize(ConstructedMappings, rawEvent))
    /\ \A c \in Unconverted(rawEvent) : normalize(ConstructedMappings, rawEvent)[c] = Null

EveryUnconvertibleIsAbsent ==
    \A rawEvent \in NormEvents : HasUnconvertible(rawEvent) => AbsentNotError(rawEvent)

\* C25: a recognized field whose value cannot be converted is absent in the
\* normalized record and is no error, for every raw event of the model, and a
\* request with such a field is not answered with validation_error.
C25_UnconvertibleIsAbsent ==
    /\ EveryUnconvertibleIsAbsent
    /\ Done(1) /\ ~proc[1].faulted /\ HasUnconvertible(rawEventData(1)) =>
          /\ AbsentNotError(rawEventData(1))
          /\ Reason(1) # "validation_error"

\* C25 witness: a request whose amount and timestamp cannot be converted was
\* processed to success, and its NormalizedEvent has neither.
C25_Witness ==
    /\ Done(1) /\ Reason(1) = "success"
    /\ Unconverted(rawEventData(1)) = {"amount", "timestamp"}
    /\ \E n \in normalizedEvents :
          n.id = proc[1].result.normalizedEventId /\ n.amount = Null /\ n.timestamp = Null

\* String(value) for the values of the model.
StringOf(value) ==
    CASE value.t = "str" -> value
      [] value.t = "num" -> Str(NumText(value))
      [] value.t = "bool" -> Str(IF value.v THEN <<"t", "r", "u", "e">>
                                           ELSE <<"f", "a", "l", "s", "e">>)
      [] OTHER -> Str(TextObject)

\* C26 as stated: the metric converter returns a string unchanged, the empty
\* string for an absent value, and the string form of every other value.
C26_MetricIsStringForm ==
    norm.call.op = "convert" /\ norm.call.field = "metric" =>
        norm.call.result =
            IF norm.call.value.t \in {"undef", "null"} THEN Str(<<>>)
            ELSE StringOf(norm.call.value)

\* The characters of a text that are digits, sign or decimal point.
NumericChars(text) == SelectSeq(text, LAMBDA c : c \in {"0", "1", "2", "3", "4", "5", "6", "7", "8", "9", ".", "-"})

\* A text that is a number as written: an optional sign, digits, and an
\* optional point followed by digits.
Unsigned(text) == IF text # <<>> /\ Head(text) = "-" THEN Tail(text) ELSE text
PointAt(text) == {i \in 1..Len(text) : text[i] = "."}
IsNumeral(text) ==
    LET body == Unsigned(text)
    IN  /\ \A i \in 1..Len(body) : IsDigit(body[i]) \/ body[i] = "."
        /\ Cardinality(PointAt(body)) <= 1
        /\ body # <<>> /\ IsDigit(body[1])

\* The number such a text denotes.
NumeralValue(text) ==
    LET body == Unsigned(text)
        digits == SelectSeq(body, IsDigit)
        fraction == IF PointAt(body) = {} THEN 0
                    ELSE Len(body) - (CHOOSE i \in PointAt(body) : TRUE)
        magnitude == DigitsVal(digits, 0)
    IN  Dec(IF text # body THEN 0 - magnitude ELSE magnitude, fraction)

\* C27: the amount converter returns a number unchanged; for a text it returns
\* the number that is left when every character but digits, sign and point is
\* removed ("1,200.50" gives 1200.50 and "1200" gives 1200), and no value when
\* the text holds no digit.
C27_AmountConversion ==
    norm.call.op = "convert" /\ norm.call.field = "amount" =>
        /\ norm.call.value.t = "num" => norm.call.result = norm.call.value
        /\ norm.call.value.t = "str" /\ IsNumeral(NumericChars(norm.call.value.v)) =>
              norm.call.result = NumeralValue(NumericChars(norm.call.value.v))
        /\ norm.call.value = Str(<<"1", ",", "2", "0", "0", ".", "5", "0">>) => norm.call.result = Dec(120050, 2)
        /\ norm.call.value = Str(<<"1", "2", "0", "0">>) => norm.call.result = Num(1200)
        /\ NoDigit(norm.call.value) => norm.call.result = Null

\* C27 witness: the converter was given "1,200.50" and returned 1200.5.
C27_Witness ==
    /\ norm.call.op = "convert" /\ norm.call.field = "amount"
    /\ norm.call.value = Str(<<"1", ",", "2", "0", "0", ".", "5", "0">>)
    /\ norm.call.result = [t |-> "num", m |-> 12005, e |-> 1]

\* The last request was GET /api/aggregates and it was answered with summaries.
Aggregated == agg.route = "aggregates" /\ agg.success

\* The records the filter of that request selects, and those of one client.
Selected == Match(normalizedEvents, BuildQuery(agg.client_id, agg.startDate, agg.endDate))
SelectedOf(client) == {doc \in Selected : doc.client_id = client}

\* A summary counts the records docs and gives the least and the greatest of
\* their amounts, an absent amount counting as 0.
CountsAndRanges(summary, docs) ==
    /\ summary.totals.count = Cardinality(docs)
    /\ \E doc \in docs : Scaled(summary.ranges.amount.min) = AmountOrZero(doc)
    /\ \A doc \in docs : Scaled(summary.ranges.amount.min) <= AmountOrZero(doc)
    /\ \E doc \in docs : Scaled(summary.ranges.amount.max) = AmountOrZero(doc)
    /\ \A doc \in docs : Scaled(summary.ranges.amount.max) >= AmountOrZero(doc)

\* The total of a summary is the sum of the amounts of docs.
TotalIsSum(summary, docs) == Scaled(summary.totals.amount) = SumAmount(docs)

\* The total of a summary is a number of two decimals at most, the nearest to
\* the sum of the amounts of docs.
TotalIsRoundedSum(summary, docs) ==
    LET difference == Scaled(summary.totals.amount) - SumAmount(docs)
    IN  /\ summary.totals.amount.e <= 2
        /\ 2 * difference <= Pow10(MaxDecimals - 2)
        /\ 2 * difference >= 0 - Pow10(MaxDecimals - 2)

\* Grouped by client, the summaries are one for each client among the selected
\* records.
OnePerClient ==
    /\ {agg.data[i].group : i \in DOMAIN agg.data} = {doc.client_id : doc \in Selected}
    /\ \A i, j \in DOMAIN agg.data : agg.data[i].group = agg.data[j].group => i = j

\* C28 as stated: grouped by client there is one summary per client present,
\* with the count, sum, min and max of that client's amounts; ungrouped there is
\* one summary, over all the matching records.
C28_SummaryPerClient ==
    Aggregated =>
        IF agg.groupBy = ByClient
        THEN /\ OnePerClient
             /\ \A i \in DOMAIN agg.data :
                   /\ CountsAndRanges(agg.data[i], SelectedOf(agg.data[i].group))
                   /\ TotalIsSum(agg.data[i], SelectedOf(agg.data[i].group))
        ELSE /\ Len(agg.data) = 1
             /\ CountsAndRanges(agg.data[1], Selected)
             /\ TotalIsSum(agg.data[1], Selected)

\* C28, amended: grouped by client there is one summary per client among the
\* matching records, with the count of that client's records, the sum of their
\* amounts rounded to two decimals, and the min and max of their amounts, an
\* absent amount counting as 0; ungrouped there is one such summary over all the
\* matching records when there is one, and no summary when there is none.
C28_SummaryPerClientRounded ==
    Aggregated =>
        IF agg.groupBy = ByClient
        THEN /\ OnePerClient
             /\ \A i \in DOMAIN agg.data :
                   /\ CountsAndRanges(agg.data[i], SelectedOf(agg.data[i].group))
                   /\ TotalIsRoundedSum(agg.data[i], SelectedOf(agg.data[i].group))
        ELSE IF Selected = {} THEN agg.data = <<>>
        ELSE /\ Len(agg.data) = 1
             /\ CountsAndRanges(agg.data[1], Selected)
             /\ TotalIsRoundedSum(agg.data[1], Selected)

\* C28 witness: over amounts 10 and 30 of A and 5 of B, grouped by client, the
\* summary of A has count 2, total 40, min 10 and max 30 and that of B count 1
\* and total 5.
C28_Witness ==
    /\ Aggregated /\ agg.groupBy = ByClient
    /\ normalizedEvents = StoredNormalized({1, 2, 3})
    /\ \E i, j \in DOMAIN agg.data :
          /\ agg.data[i].group = Str(<<"A">>)
          /\ agg.data[i].totals = [amount |-> Num(40), count |-> 2]
          /\ agg.data[i].ranges.amount = [min |-> Num(10), max |-> Num(30)]
          /\ agg.data[j].group = Str(<<"B">>)
          /\ agg.data[j].totals = [amount |-> Num(5), count |-> 1]

\* The last request, to either route, was answered with summaries.
Summarized == agg.route \in {"aggregates", "by-client"} /\ agg.success

\* A day as the number its digits spell (20240131), for a timestamp and for
\* the text of a bound.
DayOf(date) == date.y * 10000 + date.mo * 100 + date.d
DayOfText(text) == DigitsVal(SelectSeq(text, IsDigit), 0)

\* The record lies within the bounds of the last request: with a bound given its
\* timestamp is present, not before startDate and not after endDate.
WithinBounds(doc) ==
    LET from == agg.startDate
        to == agg.endDate
    IN  from # Undef \/ to # Undef =>
            /\ doc.timestamp # Null
            /\ from # Undef => DayOf(doc.timestamp) >= DayOfText(from.v)
            /\ to # Undef => DayOf(doc.timestamp) <= DayOfText(to.v)

\* The records of one client that the last request has to aggregate.
ToAggregate(client) ==
    {doc \in normalizedEvents :
        /\ doc.client_id = client
        /\ WithinBounds(doc)
        /\ agg.route = "aggregates" /\ agg.client_id # Undef => doc.client_id = agg.client_id}

\* The number of records the summaries of the last response count for a client.
RECURSIVE SumOf(_)
SumOf(numbers) == IF numbers = <<>> THEN 0 ELSE Head(numbers) + SumOf(Tail(numbers))
CountedOf(client) ==
    IF agg.route = "by-client"
    THEN SumOf([i \in DOMAIN agg.data |->
                   IF agg.data[i].client_id = client THEN agg.data[i].count ELSE 0])
    ELSE SumOf([i \in DOMAIN agg.data |->
                   IF agg.data[i].group = client THEN agg.data[i].totals.count ELSE 0])
CountedInAll == SumOf([i \in DOMAIN agg.data |-> agg.data[i].totals.count])

Clients == {doc.client_id : doc \in normalizedEvents}

\* C29: a record is aggregated iff its timestamp is present and within the
\* bounds given, both bounds inclusive and either one optional: the summaries
\* count, client by client, exactly the records within the bounds.
C29_RangeInclusive ==
    Summarized =>
        IF agg.route = "aggregates" /\ agg.groupBy # ByClient
        THEN CountedInAll = Cardinality(UNION {ToAggregate(client) : client \in Clients})
        ELSE \A client \in Clients : CountedOf(client) = Cardinality(ToAggregate(client))

\* C29 witness: with bounds 2024-01-01 and 2024-01-31 over records of January
\* 1st, 15th and 31st, of February 1st and of no timestamp, three records are
\* counted and the latest of them is of January 31st.
C29_Witness ==
    /\ Aggregated /\ agg.groupBy = Undef /\ agg.client_id = Undef
    /\ normalizedEvents = StoredNormalized(AggEventIds)
    /\ agg.startDate = Str(<<"2", "0", "2", "4", "-", "0", "1", "-", "0", "1">>)
    /\ agg.endDate = Str(<<"2", "0", "2", "4", "-", "0", "1", "-", "3", "1">>)
    /\ agg.data[1].totals.count = 3
    /\ agg.data[1].ranges.date.max = [t |-> "date", y |-> 2024, mo |-> 1, d |-> 31]

\* One number is not less than another.
NotLess(a, b) == a.m * Pow10(b.e) >= b.m * Pow10(a.e)

\* C30: the by-client route returns its groups by total amount, descending: of
\* two adjacent summaries the earlier has a total not less than the later.
C30_DescendingTotals ==
    agg.route = "by-client" /\ agg.success =>
        \A i \in 1..(Len(agg.data) - 1) :
            NotLess(agg.data[i].totalAmount, agg.data[i + 1].totalAmount)

\* C30 witness: the clients A, B and C come out with totals 40, 5 and 1.23.
C30_Witness ==
    /\ agg.route = "by-client" /\ agg.success
    /\ Len(agg.data) = 3
    /\ agg.data[1].client_id = Str(<<"A">>) /\ agg.data[1].totalAmount = Num(40)
    /\ agg.data[2].client_id = Str(<<"B">>) /\ agg.data[2].totalAmount = Num(5)
    /\ agg.data[3].client_id = Str(<<"C">>) /\ agg.data[3].totalAmount = Dec(123, 2)

\* The distinct metric values of a set of records that are neither absent nor
\* the empty string.
NonEmptyMetrics(docs) == {doc.metric : doc \in docs} \ {Null, Undef, Str(<<>>)}

\* The records the last request has to aggregate, of whatever client.
AllToAggregate == UNION {ToAggregate(client) : client \in Clients}

\* C31 as stated: in every summary of both routes the metrics are exactly the
\* distinct non-empty metric values of the records of the group, with no absent
\* and no empty entry.
C31_MetricsDistinctNonEmpty ==
    Summarized =>
        \A i \in DOMAIN agg.data :
            agg.data[i].metrics =
                IF agg.route = "by-client"
                THEN NonEmptyMetrics(ToAggregate(agg.data[i].client_id))
                ELSE IF agg.groupBy = ByClient
                THEN NonEmptyMetrics(ToAggregate(agg.data[i].group))
                ELSE NonEmptyMetrics(AllToAggregate)

\* The amounts that are present among records, in units of 10^-MaxDecimals, with
\* 0 beside them when a record has none; and the sum of those present.
WithAmount(docs) == {doc \in docs : doc.amount # Null}
AmountsWithZero(docs) ==
    {doc.amount.m * Pow10(MaxDecimals - doc.amount.e) : doc \in WithAmount(docs)}
        \cup (IF WithAmount(docs) # docs THEN {0} ELSE {})
RECURSIVE PresentSum(_)
PresentSum(docs) ==
    IF WithAmount(docs) = {} THEN 0
    ELSE LET doc == CHOOSE doc \in WithAmount(docs) : TRUE
         IN  doc.amount.m * Pow10(MaxDecimals - doc.amount.e) + PresentSum(docs \ {doc})

\* A number of two decimals at most, the nearest to n / d units.
RoundedQuotient(number, n, d) ==
    LET difference == number.m * Pow10(MaxDecimals - number.e) * d - n
    IN  /\ number.e <= 2
        /\ 2 * difference <= d * Pow10(MaxDecimals - 2)
        /\ 2 * difference >= 0 - d * Pow10(MaxDecimals - 2)

\* The summary counts every record of docs, with or without an amount, and
\* its total, average, minimum and maximum are those of the amounts with 0 in
\* the place of each absent one.
AbsentAsZero(summary, docs) ==
    /\ summary.totals.count = Cardinality(docs)
    /\ RoundedQuotient(summary.totals.amount, PresentSum(docs), 1)
    /\ RoundedQuotient(summary.averages.amount, PresentSum(docs), Cardinality(docs))
    /\ summary.ranges.amount.min.m * Pow10(MaxDecimals - summary.ranges.amount.min.e)
          \in AmountsWithZero(docs)
    /\ summary.ranges.amount.max.m * Pow10(MaxDecimals - summary.ranges.amount.max.e)
          \in AmountsWithZero(docs)
    /\ \A n \in AmountsWithZero(docs) :
          /\ summary.ranges.amount.min.m * Pow10(MaxDecimals - summary.ranges.amount.min.e) <= n
          /\ summary.ranges.amount.max.m * Pow10(MaxDecimals - summary.ranges.amount.max.e) >= n

\* C32: a matching record with no amount is counted in its group and
\* contributes 0 to the sum, the average, the minimum and the maximum.
C32_AbsentAmountIsZero ==
    Aggregated =>
        \A i \in DOMAIN agg.data :
            AbsentAsZero(agg.data[i],
                         IF agg.groupBy = ByClient THEN ToAggregate(agg.data[i].group)
                         ELSE AllToAggregate)

\* C32 witness: over one record of amount 10 and one of no amount the summary
\* has count 2, total 10, average 5, minimum 0 and maximum 10.
C32_Witness ==
    /\ Aggregated /\ agg.groupBy = Undef /\ agg.client_id = Undef
    /\ normalizedEvents = StoredNormalized({1, 4})
    /\ agg.startDate = Undef /\ agg.endDate = Undef
    /\ agg.data[1].totals = [amount |-> Num(10), count |-> 2]
    /\ agg.data[1].averages = [amount |-> Num(5)]
    /\ agg.data[1].ranges.amount = [min |-> Num(0), max |-> Num(10)]

\* C33 as stated: in every committed state as many RawEvents have status
\* normalized as there are NormalizedEvents, and the rawEventId of every
\* NormalizedEvent names a RawEvent of status normalized.
C33_ProcessedEqualsNormalized ==
    /\ Cardinality({r \in rawEvents : r.status = "normalized"}) = Cardinality(normalizedEvents)
    /\ \A n \in normalizedEvents :
          \E r \in rawEvents : r.id = n.rawEventId /\ r.status = "normalized"

\* C34: no committed RawEvent has status processing or pending.
C34_NoCommittedProcessing ==
    \A r \in rawEvents : r.status \notin {"processing", "pending"}

\* C34 witness: calls have committed RawEvents of status normalized, duplicate
\* and failed, and no call is running.
C34_Witness ==
    /\ \A p \in Procs : proc[p].pc \in {"idle", "done"}
    /\ \A status \in {"normalized", "duplicate", "failed"} :
          \E r \in rawEvents : r.status = status

\* When the call began the store held a NormalizedEvent of its content.
NormalizedLevelDuplicate ==
    /\ Valid(proc[1].data) /\ NormalizedBefore = {}
    /\ \E n \in before.normalizedEvents : n.normalizedHash = NormHash(proc[1].data)

\* A call has returned, without a storage fault, on an input that is a raw-level
\* duplicate, a normalized-level duplicate or fails validation.
StoppedBeforeStep6 ==
    /\ Done(1) /\ ~proc[1].faulted
    /\ NormalizedBefore # {} \/ NormalizedLevelDuplicate \/ ~Valid(proc[1].data)

\* The RawEvents of the call's content that the store held when it began.
SameContentBefore == {d \in before.rawEvents : d.contentHash = RawHash(proc[1].data)}

\* The call has committed one RawEvent of its content with this status, the one
\* the store held or else a new one, and no other RawEvent has changed.
CommittedAs(status) ==
    \E d \in rawEvents :
        /\ d.id = proc[1].result.eventId
        /\ d.contentHash = RawHash(proc[1].data) /\ d.status = status
        /\ IF SameContentBefore = {} THEN d.id = proc[1].id /\ (status = "duplicate" => d.errorMessage = "")
           ELSE \E o \in SameContentBefore :
                   o.id = d.id /\ (status = "duplicate" => d.errorMessage = o.errorMessage)
        /\ status = "failed" => d.errorMessage = NormalizeTable[proc[1].data].error
        /\ {r \in rawEvents : r.id # d.id} = {r \in before.rawEvents : r.id # d.id}

\* C35: on such an input the outcome and the committed state are those the
\* input and the store before the call determine, the same with
\* simulateFailure = true as with simulateFailure = false, and the outcome is
\* never processing_error.
C35_FlagActsAtStep6Only ==
    StoppedBeforeStep6 =>
        /\ Reason(1) # "processing_error"
        /\ normalizedEvents = before.normalizedEvents
        /\ IF NormalizedBefore # {}
           THEN /\ Reason(1) = "duplicate"
                /\ proc[1].result.eventId \in {d.id : d \in NormalizedBefore}
                /\ proc[1].result.normalizedEventId = 0
                /\ rawEvents = before.rawEvents
           ELSE IF ~Valid(proc[1].data)
           THEN /\ Reason(1) = "validation_error"
                /\ proc[1].result.message = NormalizeTable[proc[1].data].error
                /\ proc[1].result.normalizedEventId = 0
                /\ CommittedAs("failed")
           ELSE /\ Reason(1) = "duplicate"
                /\ \E n \in before.normalizedEvents :
                      /\ n.normalizedHash = NormHash(proc[1].data)
                      /\ n.id = proc[1].result.normalizedEventId
                /\ CommittedAs("duplicate")

\* C35 witness: a call with simulateFailure = true on a normalized-level
\* duplicate has returned duplicate and committed a RawEvent of its own.
C35_Witness ==
    /\ StoppedBeforeStep6 /\ NormalizedLevelDuplicate /\ proc[1].simulateFailure
    /\ Reason(1) = "duplicate"
    /\ proc[1].result.eventId = proc[1].id

\* The call has ended its unit of work exactly once, by a commit when it
\* returns validation_error, a normalized-level duplicate or success, and by an
\* abort when it returns a raw-level duplicate or processing_error.
ClosedOnce(p) ==
    proc[p].closed =
        << IF \/ Reason(p) \in {"validation_error", "success"}
              \/ Reason(p) = "duplicate" /\ proc[p].result.normalizedEventId # 0
           THEN "commit" ELSE "abort" >>

\* C36 as stated: every call that has started eventually returns, that is, it
\* comes to an end and the end is never an exception; when it has returned, its
\* unit of work has been closed exactly once, in the way of its path, and its
\* session has been ended; no call that is over has a unit of work open.
C36_ReturnsWithUnitClosed ==
    /\ \A k \in 1..MaxSeqCalls :
          (proc[1].id = k /\ ~Free(1)) ~> (proc[1].id = k /\ Free(1))
    /\ [](proc[1].pc # "thrown")
    /\ [](Done(1) => ClosedOnce(1) /\ proc[1].session = "ended")
    /\ [](Free(1) => ~txn[1].open)

\* The payload of request i is a mapping with no metric under either name and
\* no amount, under either name, that converts.
NoMetricNoAmount(i) ==
    LET payload == Requests[i].payload
    IN  /\ payload.t = "obj"
        /\ \A k \in 1..Len(payload.v) :
              /\ payload.v[k].k \notin {"metric", "value"}
              /\ payload.v[k].k \in {"amount", "price"} => CannotConvert("amount", payload.v[k].v)

\* A request has been answered that followed an answered request of the same
\* source and another payload, both payloads with no metric and no amount that
\* converts, both calls without a storage fault and without simulateFailure.
SecondWithoutContent ==
    /\ Done(1) /\ AfterCall /\ NoFault
    /\ ~Prev.simulateFailure /\ ~proc[1].simulateFailure
    /\ Truthy(rawEventData(1).source)
    /\ Requests[Prev.data].source = rawEventData(1).source
    /\ Requests[Prev.data].payload # rawEventData(1).payload
    /\ NoMetricNoAmount(Prev.data) /\ NoMetricNoAmount(proc[1].data)

\* C37 as stated: two such payloads normalize to the same normalizedHash, so
\* the later one adds no NormalizedEvent, is committed as a RawEvent of status
\* duplicate and is answered duplicate; payloads of different sources have
\* different hashes.
C37_EmptyContentCollides ==
    /\ SecondWithoutContent =>
          /\ Valid(Prev.data) /\ Valid(proc[1].data)
          /\ NormHash(Prev.data) = NormHash(proc[1].data)
          /\ Reason(1) = "duplicate"
          /\ Cardinality(NormalizedFor(proc[1].data)) = 1
          /\ \E d \in rawEvents :
                /\ d.id = proc[1].result.eventId
                /\ d.contentHash = RawHash(proc[1].data)
                /\ d.status = "duplicate"
    /\ \A i, j \in RequestIds :
          Valid(i) /\ Valid(j) /\ Requests[i].source # Requests[j].source =>
              NormHash(i) # NormHash(j)

====
